---- MODULE Spec2Model ----
(***************************************************************************)
(* WeAct Studio 2.13" e-paper panel (SSD1680): the core driver             *)
(* weact_epaper_2in13.c and the LVGL 9 adapter lvgl_weact_epaper.c.        *)
(*                                                                         *)
(* The transport (SPI + data/command pin), the busy/reset pins and the     *)
(* graphics library are mocks that record what the driver does to them:    *)
(* `trace` is what the mocks observed during the most recent call.         *)
(***************************************************************************)
EXTENDS Integers, Sequences, FiniteSets, TLC

VARIABLES
    framebuffer,   \* dev->framebuffer: NULL, or the byte array 0..BUFFER_SIZE-1
    trace,         \* mock capture of the last call: SPI transmits, waits, resets, callbacks
    last,          \* the last call and its arguments
    hist,          \* the drawing calls on the core since init or the last clear_screen
    phase,         \* "start", "core" (driver used directly), "asleep" (after sleep),
                   \* "lvgl" (adapter), "failed", "aborted" (ESP_ERROR_CHECK), ...
    g_ctx,         \* the adapter's static context
    mono,          \* harness of rgb_to_mono: the color given and <<value returned>>
    coord,         \* harness of the orientation transform: logical pixel, <<hardware pixel>>
    wait           \* weact_epaper_wait_until_idle in steps: caller, position, timeout

vars == <<framebuffer, trace, last, hist, phase, g_ctx, mono, coord, wait>>

(***************************************************************************)
(* Program constants (weact_epaper_2in13.h)                                *)
(***************************************************************************)
WEACT_EPAPER_WIDTH == 122
WEACT_EPAPER_HEIGHT == 250
WEACT_EPAPER_WIDTH_BYTES == 16
WEACT_EPAPER_BUFFER_SIZE == WEACT_EPAPER_WIDTH_BYTES * WEACT_EPAPER_HEIGHT

WEACT_EPAPER_CMD_DRIVER_OUTPUT_CONTROL == 1
WEACT_EPAPER_CMD_DEEP_SLEEP_MODE == 16
WEACT_EPAPER_CMD_DATA_ENTRY_MODE == 17
WEACT_EPAPER_CMD_SW_RESET == 18
WEACT_EPAPER_CMD_TEMP_SENSOR_CONTROL == 24
WEACT_EPAPER_CMD_MASTER_ACTIVATION == 32
WEACT_EPAPER_CMD_DISPLAY_UPDATE_CONTROL_1 == 33
WEACT_EPAPER_CMD_DISPLAY_UPDATE_CONTROL_2 == 34
WEACT_EPAPER_CMD_WRITE_RAM_BW == 36
WEACT_EPAPER_CMD_WRITE_RAM_RED == 38
WEACT_EPAPER_CMD_BORDER_WAVEFORM_CONTROL == 60
WEACT_EPAPER_CMD_SET_RAM_X_ADDRESS_START_END == 68
WEACT_EPAPER_CMD_SET_RAM_Y_ADDRESS_START_END == 69
WEACT_EPAPER_CMD_SET_RAM_X_ADDRESS_COUNTER == 78
WEACT_EPAPER_CMD_SET_RAM_Y_ADDRESS_COUNTER == 79

\* The color argument of weact_epaper_draw_pixel: "1 = BLACK, 0 = WHITE".
COLOR_BLACK == 1
COLOR_WHITE == 0

\* The value of a framebuffer bit: memset 0xFF is "all white".
BIT_WHITE == 1
BIT_BLACK == 0

NULL == "NULL"

\* MAX_TIMEOUT_MS of weact_epaper_wait_until_idle.
MAX_TIMEOUT_MS == 5000

(***************************************************************************)
(* Bounds of the model                                                     *)
(***************************************************************************)
\* Drawing calls (draw_pixel, draw_rectangle) between two whitenings.
MaxDraws == 2
\* Channel values taken on each side of the luma threshold.
ChannelSpread == 3

\* Longest buffer the application hands to weact_epaper_send_data.
MaxLen == 3

\* The milliseconds of delay followed within one weact_epaper_wait_until_idle.
MaxSlept == 60000

(***************************************************************************)
(* uint8_t bit arithmetic                                                  *)
(***************************************************************************)
Pow2(k) == 2 ^ k

\* (b >> k) & 1
BitOf(b, k) == (b \div Pow2(k)) % 2

\* b |= (1 << k), on a uint8_t
OrBit(b, k) == IF BitOf(b, k) = 1 THEN b ELSE b + Pow2(k)

\* b &= ~(1 << k), on a uint8_t
AndNotBit(b, k) == IF BitOf(b, k) = 1 THEN b - Pow2(k) ELSE b

\* a / b and a % b on int, b > 0: C truncates toward zero.
c_div(a, b) == IF a >= 0 THEN a \div b ELSE -((-a) \div b)
c_mod(a, b) == a - b * c_div(a, b)

\* memset(buf, 0xFF, WEACT_EPAPER_BUFFER_SIZE)
memset_0xFF == [i \in 0..(WEACT_EPAPER_BUFFER_SIZE - 1) |-> 255]

(***************************************************************************)
(* weact_epaper_draw_pixel                                                 *)
(***************************************************************************)
\* Mutant: the right edge tested with > instead of >=.
\* Mutant: row WEACT_EPAPER_HEIGHT passes the bounds check (> instead of >=).
draw_pixel_in_bounds_row_incl(x, y) ==
    ~(x < 0 \/ x >= WEACT_EPAPER_WIDTH \/ y < 0 \/ y > WEACT_EPAPER_HEIGHT)

draw_pixel_in_bounds_incl(x, y) ==
    ~(x < 0 \/ x > WEACT_EPAPER_WIDTH \/ y < 0 \/ y >= WEACT_EPAPER_HEIGHT)

draw_pixel_in_bounds(x, y) ==
    ~(x < 0 \/ x >= WEACT_EPAPER_WIDTH \/ y < 0 \/ y >= WEACT_EPAPER_HEIGHT)

\* int byte_index = y * WEACT_EPAPER_WIDTH_BYTES + (x / 8);
byte_index(x, y) == y * WEACT_EPAPER_WIDTH_BYTES + c_div(x, 8)

\* Mutant: the bit counted from the other end of the byte.
bit_index_reversed(x) == 7 - c_mod(x, 8)

\* int bit_index = x % 8;
bit_index(x) == c_mod(x, 8)

\* Mutant: the two branches swapped (color 0 clears the bit).
draw_pixel_swapped(fb, x, y, color) ==
    IF ~draw_pixel_in_bounds(x, y)
    THEN fb
    ELSE IF color = 0
         THEN [fb EXCEPT ![byte_index(x, y)] = AndNotBit(@, 7 - bit_index(x))]
         ELSE [fb EXCEPT ![byte_index(x, y)] = OrBit(@, 7 - bit_index(x))]

\* The framebuffer after weact_epaper_draw_pixel(dev, x, y, color).
draw_pixel(fb, x, y, color) ==
    IF ~draw_pixel_in_bounds(x, y)
    THEN fb
    ELSE IF color = 0
         THEN [fb EXCEPT ![byte_index(x, y)] = OrBit(@, 7 - bit_index(x))]
         ELSE [fb EXCEPT ![byte_index(x, y)] = AndNotBit(@, 7 - bit_index(x))]

(***************************************************************************)
(* weact_epaper_draw_rectangle                                             *)
(***************************************************************************)
\* TRUE; evaluating it evaluates v (operator arguments are evaluated lazily,
\* and a loop must not hand on an unevaluated chain of its iterations).
Evaluated(v) == DOMAIN v = DOMAIN v

\* The loops below run their iterations in the order of the code, lo first;
\* the range is halved only to keep the evaluation's nesting shallow.

\* for (int x = x0; x <= x1; x++) weact_epaper_draw_pixel(dev, x, y, 1);
RECURSIVE rect_fill_row(_, _, _, _)
rect_fill_row(fb, x0, x1, y) ==
    IF x0 > x1 THEN fb
    ELSE IF x0 = x1 THEN draw_pixel(fb, x0, y, 1)
    ELSE LET m == (x0 + x1) \div 2
             g == rect_fill_row(fb, x0, m, y)
         IN IF Evaluated(g) THEN rect_fill_row(g, m + 1, x1, y) ELSE g

\* for (int y = y0; y <= y1; y++) for (int x = x0; x <= x1; x++) ...
RECURSIVE rect_fill(_, _, _, _, _)
rect_fill(fb, x0, x1, y0, y1) ==
    IF y0 > y1 THEN fb
    ELSE IF y0 = y1 THEN rect_fill_row(fb, x0, x1, y0)
    ELSE LET m == (y0 + y1) \div 2
             g == rect_fill(fb, x0, x1, y0, m)
         IN IF Evaluated(g) THEN rect_fill(g, x0, x1, m + 1, y1) ELSE g

\* for (int x = xa; x <= xb; x++) { draw_pixel(x, y0); draw_pixel(x, y1); }
RECURSIVE rect_outline_x(_, _, _, _, _)
rect_outline_x(fb, xa, xb, y0, y1) ==
    IF xa > xb THEN fb
    ELSE IF xa = xb THEN draw_pixel(draw_pixel(fb, xa, y0, 1), xa, y1, 1)
    ELSE LET m == (xa + xb) \div 2
             g == rect_outline_x(fb, xa, m, y0, y1)
         IN IF Evaluated(g) THEN rect_outline_x(g, m + 1, xb, y0, y1) ELSE g

\* Mutant: the second loop of the outline draws the x0 column only.
RECURSIVE rect_outline_y_left_only(_, _, _, _, _)
rect_outline_y_left_only(fb, ya, yb, x0, x1) ==
    IF ya > yb THEN fb
    ELSE IF ya = yb THEN draw_pixel(fb, x0, ya, 1)
    ELSE LET m == (ya + yb) \div 2
             g == rect_outline_y_left_only(fb, ya, m, x0, x1)
         IN IF Evaluated(g) THEN rect_outline_y_left_only(g, m + 1, yb, x0, x1) ELSE g

\* for (int y = ya; y <= yb; y++) { draw_pixel(x0, y); draw_pixel(x1, y); }
RECURSIVE rect_outline_y(_, _, _, _, _)
rect_outline_y(fb, ya, yb, x0, x1) ==
    IF ya > yb THEN fb
    ELSE IF ya = yb THEN draw_pixel(draw_pixel(fb, x0, ya, 1), x1, ya, 1)
    ELSE LET m == (ya + yb) \div 2
             g == rect_outline_y(fb, ya, m, x0, x1)
         IN IF Evaluated(g) THEN rect_outline_y(g, m + 1, yb, x0, x1) ELSE g

\* Mutant: only the x corners are swapped.
rect_normalize_x_only(x0, y0, x1, y1) ==
    [x0 |-> IF x0 > x1 THEN x1 ELSE x0,
     x1 |-> IF x0 > x1 THEN x0 ELSE x1,
     y0 |-> y0,
     y1 |-> y1]

\* The corners after the two swaps.
rect_normalize(x0, y0, x1, y1) ==
    [x0 |-> IF x0 > x1 THEN x1 ELSE x0,
     x1 |-> IF x0 > x1 THEN x0 ELSE x1,
     y0 |-> IF y0 > y1 THEN y1 ELSE y0,
     y1 |-> IF y0 > y1 THEN y0 ELSE y1]

\* Mutant: the loops stop before the far corner (< instead of <=).
draw_rectangle_exclusive(fb, x0, y0, x1, y1, filled) ==
    LET n == rect_normalize(x0, y0, x1, y1)
    IN IF filled
       THEN rect_fill(fb, n.x0, n.x1 - 1, n.y0, n.y1 - 1)
       ELSE rect_outline_y(rect_outline_x(fb, n.x0, n.x1 - 1, n.y0, n.y1),
                           n.y0, n.y1 - 1, n.x0, n.x1)

\* The framebuffer after weact_epaper_draw_rectangle(dev, x0, y0, x1, y1, filled).
draw_rectangle(fb, x0, y0, x1, y1, filled) ==
    LET n == rect_normalize(x0, y0, x1, y1)
    IN IF filled
       THEN rect_fill(fb, n.x0, n.x1, n.y0, n.y1)
       ELSE rect_outline_y(rect_outline_x(fb, n.x0, n.x1, n.y0, n.y1),
                           n.y0, n.y1, n.x0, n.x1)

\* The indices of dev->framebuffer that weact_epaper_draw_pixel(dev, x, y, _)
\* reads and writes: framebuffer[byte_index], past the early return.
draw_pixel_access(x, y) ==
    IF draw_pixel_in_bounds(x, y) THEN {byte_index(x, y)} ELSE {}

\* The indices that the draw_pixel calls of weact_epaper_draw_rectangle
\* read and write, over all iterations of its loops.
draw_rectangle_access(x0, y0, x1, y1, filled) ==
    LET n == rect_normalize(x0, y0, x1, y1)
    IN IF filled
       THEN UNION {draw_pixel_access(x, y) : x \in n.x0..n.x1, y \in n.y0..n.y1}
       ELSE UNION ({draw_pixel_access(x, y) : x \in n.x0..n.x1, y \in {n.y0, n.y1}}
                   \cup {draw_pixel_access(x, y) : x \in {n.x0, n.x1}, y \in n.y0..n.y1})

\* The indices memset(dev->framebuffer, 0xFF, WEACT_EPAPER_BUFFER_SIZE) writes
\* and send_data(dev, dev->framebuffer, WEACT_EPAPER_BUFFER_SIZE) reads.
whole_buffer_access == 0..(WEACT_EPAPER_BUFFER_SIZE - 1)

(***************************************************************************)
(* Transport: what each driver routine makes the mocks observe             *)
(***************************************************************************)
\* A buffer of one byte (uint8_t cmd, uint8_t data).
Buf1(b) == [i \in 0..0 |-> b]

\* The number of bytes of a transmitted buffer.
BufLen(buf) == Cardinality(DOMAIN buf)

\* weact_epaper_send_command: DC low, one transaction of 8 bits.
send_command(cmd) == <<[ev |-> "spi", dc |-> 0, tx |-> Buf1(cmd)]>>

\* Mutant: the payload is transmitted with DC left low.
send_data_dc_low(data, len) ==
    IF len = 0 THEN <<>>
    ELSE <<[ev |-> "spi", dc |-> 0, tx |-> [i \in 0..(len - 1) |-> data[i]]]>>

\* weact_epaper_send_data: nothing for len = 0, else DC high, one transaction.
send_data(data, len) ==
    IF len = 0 THEN <<>>
    ELSE IF DOMAIN data = 0..(len - 1)
    THEN <<[ev |-> "spi", dc |-> 1, tx |-> data]>>
    ELSE <<[ev |-> "spi", dc |-> 1, tx |-> [i \in 0..(len - 1) |-> data[i]]]>>

\* weact_epaper_send_data_byte
send_data_byte(data) == send_data(Buf1(data), 1)

\* weact_epaper_wait_until_idle, as one observed call: it transmits nothing.
wait_until_idle == <<[ev |-> "wait_until_idle"]>>

\* weact_epaper_reset: RST high, low, high.
reset == <<[ev |-> "rst", level |-> 1], [ev |-> "rst", level |-> 0],
           [ev |-> "rst", level |-> 1]>>

\* The register writes of weact_epaper_init after the software reset.
init_registers ==
    send_command(WEACT_EPAPER_CMD_DRIVER_OUTPUT_CONTROL)
    \o send_data_byte(249) \o send_data_byte(0) \o send_data_byte(0)
    \o send_command(WEACT_EPAPER_CMD_DATA_ENTRY_MODE)
    \o send_data_byte(3)
    \o send_command(WEACT_EPAPER_CMD_SET_RAM_X_ADDRESS_START_END)
    \o send_data_byte(0) \o send_data_byte(15)
    \o send_command(WEACT_EPAPER_CMD_SET_RAM_Y_ADDRESS_START_END)
    \o send_data_byte(0) \o send_data_byte(0) \o send_data_byte(249) \o send_data_byte(0)
    \o send_command(WEACT_EPAPER_CMD_BORDER_WAVEFORM_CONTROL)
    \o send_data_byte(5)
    \o send_command(WEACT_EPAPER_CMD_DISPLAY_UPDATE_CONTROL_1)
    \o send_data_byte(0) \o send_data_byte(128)
    \o send_command(WEACT_EPAPER_CMD_TEMP_SENSOR_CONTROL)
    \o send_data_byte(128)

\* Mutant: the software reset is transmitted before the hardware reset.
init_sequence_late_reset ==
    send_command(WEACT_EPAPER_CMD_SW_RESET) \o wait_until_idle
    \o reset \o wait_until_idle
    \o init_registers

\* weact_epaper_init from the hardware reset on.
init_sequence ==
    reset \o wait_until_idle
    \o send_command(WEACT_EPAPER_CMD_SW_RESET) \o wait_until_idle
    \o init_registers

\* Mutant: the hardware reset is done before the allocation is checked.
weact_epaper_init_trace_reset_first(alloc_ok) ==
    IF alloc_ok THEN init_sequence ELSE reset \o wait_until_idle

\* What weact_epaper_init makes the mocks observe: nothing when the
\* allocation of the framebuffer fails.
weact_epaper_init_trace(alloc_ok) ==
    IF alloc_ok THEN init_sequence ELSE <<>>

\* Set the RAM address counters to the start position.
set_ram_address_counters ==
    send_command(WEACT_EPAPER_CMD_SET_RAM_X_ADDRESS_COUNTER)
    \o send_data_byte(0)
    \o send_command(WEACT_EPAPER_CMD_SET_RAM_Y_ADDRESS_COUNTER)
    \o send_data_byte(0) \o send_data_byte(0)

\* The 0x22 / 0x20 pair and the wait that end a refresh.
\* Mutant: the driver does not wait after the master activation.
trigger_update_no_wait ==
    send_command(WEACT_EPAPER_CMD_DISPLAY_UPDATE_CONTROL_2)
    \o send_data_byte(247)
    \o send_command(WEACT_EPAPER_CMD_MASTER_ACTIVATION)

trigger_update ==
    send_command(WEACT_EPAPER_CMD_DISPLAY_UPDATE_CONTROL_2)
    \o send_data_byte(247)
    \o send_command(WEACT_EPAPER_CMD_MASTER_ACTIVATION)
    \o wait_until_idle

\* Mutant: the address counters are not reset before the second plane.
clear_screen_sequence_no_reset(fb) ==
    set_ram_address_counters
    \o send_command(WEACT_EPAPER_CMD_WRITE_RAM_BW)
    \o send_data(fb, WEACT_EPAPER_BUFFER_SIZE)
    \o send_command(WEACT_EPAPER_CMD_WRITE_RAM_RED)
    \o send_data(fb, WEACT_EPAPER_BUFFER_SIZE)
    \o trigger_update

\* weact_epaper_clear_screen after its memset: fb is dev->framebuffer.
clear_screen_sequence(fb) ==
    set_ram_address_counters
    \o send_command(WEACT_EPAPER_CMD_WRITE_RAM_BW)
    \o send_data(fb, WEACT_EPAPER_BUFFER_SIZE)
    \o set_ram_address_counters
    \o send_command(WEACT_EPAPER_CMD_WRITE_RAM_RED)
    \o send_data(fb, WEACT_EPAPER_BUFFER_SIZE)
    \o trigger_update

\* Mutant: the secondary plane is written too, as clear_screen does.
display_frame_sequence_both_planes(fb) ==
    set_ram_address_counters
    \o send_command(WEACT_EPAPER_CMD_WRITE_RAM_BW)
    \o send_data(fb, WEACT_EPAPER_BUFFER_SIZE)
    \o set_ram_address_counters
    \o send_command(WEACT_EPAPER_CMD_WRITE_RAM_RED)
    \o send_data(fb, WEACT_EPAPER_BUFFER_SIZE)
    \o trigger_update

\* Mutant: a blank buffer is uploaded instead of the framebuffer.
display_frame_sequence_blank(fb) ==
    set_ram_address_counters
    \o send_command(WEACT_EPAPER_CMD_WRITE_RAM_BW)
    \o send_data(memset_0xFF, WEACT_EPAPER_BUFFER_SIZE)
    \o trigger_update

\* weact_epaper_display_frame: fb is dev->framebuffer.
display_frame_sequence(fb) ==
    set_ram_address_counters
    \o send_command(WEACT_EPAPER_CMD_WRITE_RAM_BW)
    \o send_data(fb, WEACT_EPAPER_BUFFER_SIZE)
    \o trigger_update

\* Mutant: the deep-sleep command without its mode byte.
sleep_sequence_no_payload == send_command(WEACT_EPAPER_CMD_DEEP_SLEEP_MODE)

\* weact_epaper_sleep: deep sleep mode 1; the delay transmits nothing.
sleep_sequence ==
    send_command(WEACT_EPAPER_CMD_DEEP_SLEEP_MODE) \o send_data_byte(1)

\* The positions of a routine's observed calls that are SPI transmits.
spi_transmits(seq) == {i \in 1..Len(seq) : seq[i].ev = "spi"}

\* Mutant: the error of the transmit is ignored and the routine goes on.
abort_at_ignored(seq, i) == seq

\* ESP_ERROR_CHECK(spi_device_polling_transmit(..)) failing at call i of a
\* routine: abort() ends the process there; the failing transmit is the last
\* call observed.
abort_at(seq, i) == SubSeq(seq, 1, i)

(***************************************************************************)
(* LVGL adapter (lvgl_weact_epaper.c)                                      *)
(***************************************************************************)
\* Mutant: the threshold compared with <= instead of <.
rgb_to_mono_inclusive(color) ==
    LET brightness == (color.red * 30 + color.green * 59 + color.blue * 11) \div 100
    IN IF brightness <= 128 THEN 0 ELSE 1

\* rgb_to_mono: brightness = (r*30 + g*59 + b*11) / 100 in a uint16_t;
\* "0 for black, 1 for white".
rgb_to_mono(color) ==
    LET brightness == (color.red * 30 + color.green * 59 + color.blue * 11) \div 100
    IN IF brightness < 128 THEN 0 ELSE 1

\* The color lvgl_flush_cb reads at px_index of px_map for color format cf
\* (a uint16_t is read little-endian, as on the ESP32).
flush_read_color(cf, px_map, px_index) ==
    IF cf = "RGB565"
    THEN LET rgb565 == px_map[2 * px_index] + 256 * px_map[2 * px_index + 1]
         IN [red   |-> (((rgb565 \div 2048) % 32) * 255) \div 31,
             green |-> (((rgb565 \div 32) % 64) * 255) \div 63,
             blue  |-> ((rgb565 % 32) * 255) \div 31]
    ELSE IF cf = "RGB888"
    THEN [red   |-> px_map[px_index * 3],
          green |-> px_map[px_index * 3 + 1],
          blue  |-> px_map[px_index * 3 + 2]]
    ELSE IF cf = "XRGB8888" \/ cf = "ARGB8888"
    THEN [red   |-> px_map[px_index * 4 + 1],
          green |-> px_map[px_index * 4 + 2],
          blue  |-> px_map[px_index * 4 + 3]]
    ELSE [red   |-> px_map[px_index],
          green |-> px_map[px_index],
          blue  |-> px_map[px_index]]

\* Mutant: the landscape flip about the height instead of height - 1.
flush_hw_coord_off_by_one(landscape, area, x, y) ==
    IF landscape
    THEN [hw_x |-> area.y1 + y,
          hw_y |-> WEACT_EPAPER_HEIGHT - (area.x1 + x)]
    ELSE [hw_x |-> area.x1 + x,
          hw_y |-> area.y1 + y]

\* The hardware coordinate of pixel (x, y) of the dirty rectangle.
flush_hw_coord(landscape, area, x, y) ==
    IF landscape
    THEN [hw_x |-> area.y1 + y,
          hw_y |-> (WEACT_EPAPER_HEIGHT - 1) - (area.x1 + x)]
    ELSE [hw_x |-> area.x1 + x,
          hw_y |-> area.y1 + y]

\* Mutant: the loop variables exchanged in the coordinate transform.
flush_call_transposed(landscape, area, cf, px_map, x, y, px_index) ==
    LET mono_color == rgb_to_mono(flush_read_color(cf, px_map, px_index))
        hw == flush_hw_coord(landscape, area, y, x)
    IN [ev |-> "draw_pixel", x |-> hw.hw_x, y |-> hw.hw_y, color |-> mono_color]

\* The weact_epaper_draw_pixel call of one iteration of the inner loop of
\* lvgl_flush_cb.
flush_call(landscape, area, cf, px_map, x, y, px_index) ==
    LET mono_color == rgb_to_mono(flush_read_color(cf, px_map, px_index))
        hw == flush_hw_coord(landscape, area, x, y)
    IN [ev |-> "draw_pixel", x |-> hw.hw_x, y |-> hw.hw_y, color |-> mono_color]

\* One iteration of the inner loop of lvgl_flush_cb.
flush_pixel(fb, landscape, area, cf, px_map, x, y, px_index) ==
    LET call == flush_call(landscape, area, cf, px_map, x, y, px_index)
    IN draw_pixel(fb, call.x, call.y, call.color)

\* The two loops of lvgl_flush_cb from (x, y) on: px_index counts the pixels.
RECURSIVE flush_loop(_, _, _, _, _, _, _, _, _, _)
flush_loop(fb, landscape, area, cf, px_map, w, h, x, y, px_index) ==
    IF y >= h THEN fb
    ELSE IF x >= w
    THEN flush_loop(fb, landscape, area, cf, px_map, w, h, 0, y + 1, px_index)
    ELSE flush_loop(flush_pixel(fb, landscape, area, cf, px_map, x, y, px_index),
                    landscape, area, cf, px_map, w, h, x + 1, y, px_index + 1)

\* The framebuffer after the loops of lvgl_flush_cb; w and h are
\* lv_area_get_width(area) and lv_area_get_height(area).
flush_framebuffer(fb, landscape, area, cf, px_map) ==
    LET w == area.x2 - area.x1 + 1
        h == area.y2 - area.y1 + 1
    IN flush_loop(fb, landscape, area, cf, px_map, w, h, 0, 0, 0)

\* The weact_epaper_draw_pixel calls of the two loops of lvgl_flush_cb from
\* (x, y) on, in the order they are made.
RECURSIVE flush_calls(_, _, _, _, _, _, _, _, _)
flush_calls(landscape, area, cf, px_map, w, h, x, y, px_index) ==
    IF y >= h THEN <<>>
    ELSE IF x >= w
    THEN flush_calls(landscape, area, cf, px_map, w, h, 0, y + 1, px_index)
    ELSE <<flush_call(landscape, area, cf, px_map, x, y, px_index)>>
         \o flush_calls(landscape, area, cf, px_map, w, h, x + 1, y, px_index + 1)

\* Mutant: the flush is reported complete only after the refresh.
flush_sequence_late(fb) ==
    display_frame_sequence(fb) \o <<[ev |-> "lv_display_flush_ready"]>>

\* What lvgl_flush_cb does after its loops: flush ready, then the refresh.
flush_sequence(fb) ==
    <<[ev |-> "lv_display_flush_ready"]>> \o display_frame_sequence(fb)

\* Everything one lvgl_flush_cb makes the core and the library observe.
flush_trace(fb, landscape, area, cf, px_map) ==
    flush_calls(landscape, area, cf, px_map,
                area.x2 - area.x1 + 1, area.y2 - area.y1 + 1, 0, 0, 0)
    \o flush_sequence(flush_framebuffer(fb, landscape, area, cf, px_map))

\* The logical size lvgl_weact_epaper_create gives the display.
disp_width(landscape) == IF landscape THEN WEACT_EPAPER_HEIGHT ELSE WEACT_EPAPER_WIDTH
disp_height(landscape) == IF landscape THEN WEACT_EPAPER_WIDTH ELSE WEACT_EPAPER_HEIGHT

(***************************************************************************)
(* Inputs of the calls                                                     *)
(***************************************************************************)
\* Arguments <<x, y, color>> of weact_epaper_draw_pixel: the corners of the
\* panel and both ends of a byte in either color (color is a uint8_t: 255 is
\* another non-zero value), and one step outside the panel on each side.
PixelArgs ==
    {<<0, 0, COLOR_BLACK>>, <<0, 0, COLOR_WHITE>>,
     <<7, 0, COLOR_BLACK>>, <<8, 1, 255>>,
     <<121, 249, COLOR_BLACK>>, <<121, 249, COLOR_WHITE>>,
     <<-1, 0, COLOR_WHITE>>, <<122, 0, COLOR_BLACK>>,
     <<0, -1, COLOR_BLACK>>, <<121, 250, COLOR_BLACK>>}

\* Arguments <<x0, y0, x1, y1, filled>> of weact_epaper_draw_rectangle: the
\* box of the end-to-end scenario, the same box with its corners reversed,
\* a box over the far corner of the panel and one over the origin.
RectArgs ==
    {<<10, 10, 49, 49, TRUE>>, <<49, 49, 10, 10, FALSE>>,
     <<119, 247, 123, 251, TRUE>>, <<1, 1, -2, -2, FALSE>>}

\* Corners of weact_epaper_draw_rectangle around the right edge and the top
\* edge of the panel, in each order, for both fill modes.
CornerXs == {<<118, 123>>, <<123, 118>>, <<116, 120>>}
CornerYs == {<<3, 6>>, <<6, 3>>, <<4, -1>>}
CornerArgs ==
    {<<xs[1], ys[1], xs[2], ys[2], filled>> :
        xs \in CornerXs, ys \in CornerYs, filled \in BOOLEAN}

\* Color formats of the display.
ColorFormats == {"RGB565", "RGB888", "XRGB8888", "L8"}

\* The bytes of one pixel in color format cf: a dark one, a light one, and
\* the two at the luma threshold ("below" is the darker).
SamplePixel(cf, kind) ==
    IF cf = "RGB565"
    THEN CASE kind = "dark" -> <<0, 0>>
           [] kind = "light" -> <<255, 255>>
           [] kind = "below" -> <<239, 123>>
           [] kind = "above" -> <<16, 132>>
    ELSE IF cf = "RGB888"
    THEN CASE kind = "dark" -> <<0, 0, 0>>
           [] kind = "light" -> <<255, 255, 255>>
           [] kind = "below" -> <<127, 127, 127>>
           [] kind = "above" -> <<128, 128, 128>>
    ELSE IF cf = "XRGB8888"
    THEN CASE kind = "dark" -> <<255, 0, 0, 0>>
           [] kind = "light" -> <<255, 255, 255, 255>>
           [] kind = "below" -> <<255, 127, 127, 127>>
           [] kind = "above" -> <<255, 128, 128, 128>>
    ELSE CASE kind = "dark" -> <<0>>
           [] kind = "light" -> <<255>>
           [] kind = "below" -> <<127>>
           [] kind = "above" -> <<128>>

PixelKinds == {"dark", "light", "below", "above"}

\* A px_map (bytes from index 0) holding the pixels of the sequence pixels.
RECURSIVE Flatten(_)
Flatten(pixels) == IF pixels = <<>> THEN <<>> ELSE Head(pixels) \o Flatten(Tail(pixels))
PxMap(pixels) ==
    LET bytes == Flatten(pixels)
    IN [i \in 0..(Len(bytes) - 1) |-> bytes[i + 1]]

\* Dirty rectangles and pixel buffers handed to the flush callback: one pixel
\* at the origin in every sample color, and the 2 x 2 block in the far corner
\* of the logical display, all dark, all light, or with a single dark pixel.
FlushArgs(landscape) ==
    LET origin == [x1 |-> 0, y1 |-> 0, x2 |-> 0, y2 |-> 0]
        corner == [x1 |-> disp_width(landscape) - 2, y1 |-> disp_height(landscape) - 2,
                   x2 |-> disp_width(landscape) - 1, y2 |-> disp_height(landscape) - 1]
        Block(cf, dark) ==
            PxMap([k \in 1..4 |-> SamplePixel(cf, IF (k - 1) \in dark THEN "dark" ELSE "light")])
    IN {[area |-> origin, cf |-> cf, px_map |-> PxMap(<<SamplePixel(cf, kind)>>)] :
            cf \in ColorFormats, kind \in PixelKinds}
       \cup
       {[area |-> corner, cf |-> cf, px_map |-> Block(cf, dark)] :
            cf \in {"RGB888", "L8"}, dark \in {{}, {0}, {1}, {2}, {3}, {0, 1, 2, 3}}}

\* The command codes of the header.
CommandCodes ==
    {WEACT_EPAPER_CMD_DRIVER_OUTPUT_CONTROL, WEACT_EPAPER_CMD_DEEP_SLEEP_MODE,
     WEACT_EPAPER_CMD_DATA_ENTRY_MODE, WEACT_EPAPER_CMD_SW_RESET,
     WEACT_EPAPER_CMD_TEMP_SENSOR_CONTROL, WEACT_EPAPER_CMD_MASTER_ACTIVATION,
     WEACT_EPAPER_CMD_DISPLAY_UPDATE_CONTROL_1, WEACT_EPAPER_CMD_DISPLAY_UPDATE_CONTROL_2,
     WEACT_EPAPER_CMD_WRITE_RAM_BW, WEACT_EPAPER_CMD_WRITE_RAM_RED,
     WEACT_EPAPER_CMD_BORDER_WAVEFORM_CONTROL,
     WEACT_EPAPER_CMD_SET_RAM_X_ADDRESS_START_END,
     WEACT_EPAPER_CMD_SET_RAM_Y_ADDRESS_START_END,
     WEACT_EPAPER_CMD_SET_RAM_X_ADDRESS_COUNTER,
     WEACT_EPAPER_CMD_SET_RAM_Y_ADDRESS_COUNTER}

\* Arguments of the transport calls the application makes itself: any
\* command code; buffers of up to MaxLen bytes, sent whole or in part or
\* with len = 0; single bytes.
CommandArgs == CommandCodes
DataBuf(m) == [i \in 0..(m - 1) |-> (i * 83 + 1) % 256]
DataArgs ==
    {a \in {[data |-> DataBuf(m), len |-> n] : m \in 0..MaxLen, n \in 0..MaxLen} :
        a.len <= BufLen(a.data)}
ByteArgs == {0, 1, 247, 255}

\* Channel values for the harness of rgb_to_mono: the extremes and both
\* sides of the threshold.
Channels == {0, 255} \cup ((128 - ChannelSpread)..(127 + ChannelSpread))

(***************************************************************************)
(* The calls                                                               *)
(***************************************************************************)
\* Mutant: the memset left out.
clear_screen_memset_skipped(fb) == fb

\* dev->framebuffer after the memset of weact_epaper_clear_screen.
clear_screen_memset(fb) == memset_0xFF

\* The application holds an initialized device handle; the driver keeps no
\* record of the panel being asleep and accepts every call after sleep.
driver_usable == phase \in {"core", "asleep"}

\* weact_epaper_init(dev, config), called once by the application; the
\* allocation of the framebuffer may fail.
weact_epaper_init ==
    /\ phase = "start"
    /\ \E alloc_ok \in BOOLEAN :
         IF alloc_ok
         THEN /\ framebuffer' = memset_0xFF
              /\ trace' = weact_epaper_init_trace(TRUE)
              /\ last' = [op |-> "init", ret |-> TRUE]
              /\ hist' = <<>>
              /\ phase' = "core"
         ELSE /\ framebuffer' = NULL
              /\ trace' = weact_epaper_init_trace(FALSE)
              /\ last' = [op |-> "init", ret |-> FALSE]
              /\ hist' = <<>>
              /\ phase' = "failed"
    /\ UNCHANGED <<g_ctx, mono, coord, wait>>

\* weact_epaper_draw_pixel(dev, x, y, color)
weact_epaper_draw_pixel ==
    /\ driver_usable
    /\ Len(hist) < MaxDraws
    /\ \E a \in PixelArgs :
         LET call == [op |-> "draw_pixel", x |-> a[1], y |-> a[2], color |-> a[3]]
         IN /\ framebuffer' = draw_pixel(framebuffer, a[1], a[2], a[3])
            /\ last' = call
            /\ hist' = Append(hist, call)
    /\ trace' = <<>>
    /\ UNCHANGED <<phase, g_ctx, mono, coord, wait>>

\* weact_epaper_draw_rectangle(dev, x0, y0, x1, y1, filled)
weact_epaper_draw_rectangle ==
    /\ driver_usable
    /\ Len(hist) < MaxDraws
    /\ \E a \in RectArgs :
         LET call == [op |-> "draw_rectangle", x0 |-> a[1], y0 |-> a[2],
                      x1 |-> a[3], y1 |-> a[4], filled |-> a[5]]
         IN /\ framebuffer' = draw_rectangle(framebuffer, a[1], a[2], a[3], a[4], a[5])
            /\ last' = call
            /\ hist' = Append(hist, call)
    /\ trace' = <<>>
    /\ UNCHANGED <<phase, g_ctx, mono, coord, wait>>

\* weact_epaper_draw_rectangle(dev, x0, y0, x1, y1, filled), the corners
\* taken from CornerArgs.
weact_epaper_draw_rectangle_corners ==
    /\ driver_usable
    /\ Len(hist) < MaxDraws
    /\ \E a \in CornerArgs :
         LET call == [op |-> "draw_rectangle", x0 |-> a[1], y0 |-> a[2],
                      x1 |-> a[3], y1 |-> a[4], filled |-> a[5]]
         IN /\ framebuffer' = draw_rectangle(framebuffer, a[1], a[2], a[3], a[4], a[5])
            /\ last' = call
            /\ hist' = Append(hist, call)
    /\ trace' = <<>>
    /\ UNCHANGED <<phase, g_ctx, mono, coord, wait>>

\* weact_epaper_clear_screen(dev)
weact_epaper_clear_screen ==
    /\ driver_usable
    /\ framebuffer' = clear_screen_memset(framebuffer)
    /\ trace' = clear_screen_sequence(framebuffer')
    /\ last' = [op |-> "clear_screen"]
    /\ hist' = <<>>
    /\ UNCHANGED <<phase, g_ctx, mono, coord, wait>>

\* weact_epaper_display_frame(dev)
weact_epaper_display_frame ==
    /\ driver_usable
    /\ trace' = display_frame_sequence(framebuffer)
    /\ last' = [op |-> "display_frame"]
    /\ UNCHANGED <<framebuffer, hist, phase, g_ctx, mono, coord, wait>>

\* weact_epaper_sleep(dev)
weact_epaper_sleep ==
    /\ driver_usable
    /\ trace' = sleep_sequence
    /\ last' = [op |-> "sleep"]
    /\ phase' = "asleep"
    /\ UNCHANGED <<framebuffer, hist, g_ctx, mono, coord, wait>>

\* weact_epaper_wait_until_idle(dev), called by the application.
weact_epaper_wait_until_idle ==
    /\ driver_usable
    /\ trace' = wait_until_idle
    /\ last' = [op |-> "wait_until_idle"]
    /\ UNCHANGED <<framebuffer, hist, phase, g_ctx, mono, coord, wait>>

\* The process aborts in the operation named, at call i of its sequence.
esp_error_check_abort(name, seq) ==
    \E i \in spi_transmits(seq) :
       /\ trace' = abort_at(seq, i)
       /\ last' = [op |-> "abort", of |-> name, at |-> i]
       /\ phase' = "aborted"

\* weact_epaper_init with one of its transmits failing.
weact_epaper_init_abort ==
    /\ phase = "start"
    /\ framebuffer' = memset_0xFF
    /\ hist' = <<>>
    /\ esp_error_check_abort("init", weact_epaper_init_trace(TRUE))
    /\ UNCHANGED <<g_ctx, mono, coord, wait>>

\* weact_epaper_clear_screen with one of its transmits failing.
weact_epaper_clear_screen_abort ==
    /\ driver_usable
    /\ framebuffer' = clear_screen_memset(framebuffer)
    /\ hist' = <<>>
    /\ esp_error_check_abort("clear_screen", clear_screen_sequence(framebuffer'))
    /\ UNCHANGED <<g_ctx, mono, coord, wait>>

\* weact_epaper_display_frame with one of its transmits failing.
weact_epaper_display_frame_abort ==
    /\ driver_usable
    /\ esp_error_check_abort("display_frame", display_frame_sequence(framebuffer))
    /\ UNCHANGED <<framebuffer, hist, g_ctx, mono, coord, wait>>

\* weact_epaper_sleep with one of its transmits failing.
weact_epaper_sleep_abort ==
    /\ driver_usable
    /\ esp_error_check_abort("sleep", sleep_sequence)
    /\ UNCHANGED <<framebuffer, hist, g_ctx, mono, coord, wait>>

\* weact_epaper_send_command(dev, cmd), called by the application.
weact_epaper_send_command ==
    /\ driver_usable
    /\ \E cmd \in CommandArgs :
         /\ trace' = send_command(cmd)
         /\ last' = [op |-> "send_command", cmd |-> cmd]
    /\ UNCHANGED <<framebuffer, hist, phase, g_ctx, mono, coord, wait>>

\* weact_epaper_send_data(dev, data, len), called by the application.
weact_epaper_send_data ==
    /\ driver_usable
    /\ \E a \in DataArgs :
         /\ trace' = send_data(a.data, a.len)
         /\ last' = [op |-> "send_data", data |-> a.data, len |-> a.len]
    /\ UNCHANGED <<framebuffer, hist, phase, g_ctx, mono, coord, wait>>

\* weact_epaper_send_data_byte(dev, data), called by the application.
weact_epaper_send_data_byte ==
    /\ driver_usable
    /\ \E b \in ByteArgs :
         /\ trace' = send_data_byte(b)
         /\ last' = [op |-> "send_data_byte", data |-> b]
    /\ UNCHANGED <<framebuffer, hist, phase, g_ctx, mono, coord, wait>>

\* What lvgl_weact_epaper_create makes the graphics library observe once
\* both the display and draw buffer 1 are there.
create_register ==
    <<[ev |-> "lv_display_set_buffers"], [ev |-> "lv_display_set_flush_cb"],
      [ev |-> "lv_display_set_user_data"], [ev |-> "lv_display_set_default"],
      [ev |-> "esp_timer_start_periodic"]>>

\* Mutant: the display is registered before the panel is brought up and
\* cleared.
create_sequence_clear_last(fb) ==
    <<[ev |-> "lv_display_create"]>> \o create_register
    \o weact_epaper_init_trace(TRUE) \o clear_screen_sequence(fb)

\* What a lvgl_weact_epaper_create without failure makes the mocks
\* observe: weact_epaper_init, weact_epaper_clear_screen, lv_display_create,
\* and, the draw buffers allocated, the registration.
create_sequence(fb) ==
    weact_epaper_init_trace(TRUE) \o clear_screen_sequence(fb)
    \o <<[ev |-> "lv_display_create"]>> \o create_register

\* Mutant: a failed allocation of draw buffer 1 is tolerated too.
create_ret_ignoring_buf1(fb_ok, disp_ok, buf1_ok, buf2_ok) ==
    IF fb_ok /\ disp_ok THEN "disp" ELSE NULL

\* The value lvgl_weact_epaper_create returns: g_ctx.disp, or NULL from the
\* three early returns; a failed draw buffer 2 only logs a warning.
create_ret(fb_ok, disp_ok, buf1_ok, buf2_ok) ==
    IF fb_ok /\ disp_ok /\ buf1_ok THEN "disp" ELSE NULL

\* lvgl_weact_epaper_create(config), called once by the application; each
\* allocation is attempted only when the code reaches it, and last.alloc
\* holds the outcomes of those attempted, in order.
lvgl_weact_epaper_create ==
    /\ phase = "start"
    /\ \E landscape \in BOOLEAN, fb_ok \in BOOLEAN, disp_ok \in BOOLEAN,
          buf1_ok \in BOOLEAN, buf2_ok \in BOOLEAN :
         LET ctx0 == [g_ctx EXCEPT !.landscape = landscape]
             ret == create_ret(fb_ok, disp_ok, buf1_ok, buf2_ok)
         IN IF ~fb_ok
            THEN /\ framebuffer' = NULL
                 /\ trace' = weact_epaper_init_trace(FALSE)
                 /\ g_ctx' = ctx0
                 /\ last' = [op |-> "create", ret |-> ret, alloc |-> <<FALSE>>]
                 /\ hist' = <<>>
                 /\ phase' = "failed"
            ELSE /\ framebuffer' = clear_screen_memset(memset_0xFF)
                 /\ hist' = <<>>
                 /\ IF ~disp_ok
                    THEN /\ trace' = weact_epaper_init_trace(TRUE)
                                     \o clear_screen_sequence(framebuffer')
                                     \o <<[ev |-> "lv_display_create"]>>
                         /\ g_ctx' = ctx0
                         /\ last' = [op |-> "create", ret |-> ret,
                                     alloc |-> <<TRUE, FALSE>>]
                         /\ phase' = "failed"
                    ELSE IF ~buf1_ok
                    THEN /\ trace' = weact_epaper_init_trace(TRUE)
                                     \o clear_screen_sequence(framebuffer')
                                     \o <<[ev |-> "lv_display_create"],
                                          [ev |-> "lv_display_delete"]>>
                         /\ g_ctx' = [ctx0 EXCEPT !.disp = "disp"]
                         /\ last' = [op |-> "create", ret |-> ret,
                                     alloc |-> <<TRUE, TRUE, FALSE>>]
                         /\ phase' = "failed"
                    ELSE /\ trace' = create_sequence(framebuffer')
                         /\ g_ctx' = [ctx0 EXCEPT !.disp = "disp", !.draw_buf1 = "buf1",
                                         !.draw_buf2 = IF buf2_ok THEN "buf2" ELSE NULL]
                         /\ last' = [op |-> "create", ret |-> ret,
                                     alloc |-> <<TRUE, TRUE, TRUE, buf2_ok>>]
                         /\ phase' = IF ret = NULL THEN "failed" ELSE "lvgl"
    /\ UNCHANGED <<mono, coord, wait>>

\* lvgl_flush_cb(disp, area, px_map), called by the graphics library once the
\* callback is registered.
lvgl_flush_cb ==
    /\ phase = "lvgl"
    /\ \E a \in FlushArgs(g_ctx.landscape) :
         /\ framebuffer' = flush_framebuffer(framebuffer, g_ctx.landscape,
                                             a.area, a.cf, a.px_map)
         /\ last' = [op |-> "flush", area |-> a.area, cf |-> a.cf, px_map |-> a.px_map]
         /\ trace' = flush_trace(framebuffer, g_ctx.landscape, a.area, a.cf, a.px_map)
    /\ UNCHANGED <<hist, phase, g_ctx, mono, coord, wait>>

\* The harnesses at rest.
NoCoord == [x |-> 0, y |-> 0, hw |-> <<>>]
NoWait == [op |-> "none", waits |-> 0, pc |-> "idle", timeout |-> 0, level |-> 0, slept |-> 0]

\* The dirty rectangle of a full-screen landscape render (render mode FULL).
full_landscape_area ==
    [x1 |-> 0, y1 |-> 0, x2 |-> disp_width(TRUE) - 1, y2 |-> disp_height(TRUE) - 1]

\* The coordinate transform of lvgl_flush_cb in landscape, applied to the
\* logical pixel the harness holds.
flush_hw_coord_call ==
    /\ phase = "coord"
    /\ coord.hw = <<>>
    /\ LET hw == flush_hw_coord(TRUE, full_landscape_area, coord.x, coord.y)
       IN coord' = [coord EXCEPT !.hw = <<hw.hw_x, hw.hw_y>>]
    /\ UNCHANGED <<framebuffer, trace, last, hist, phase, g_ctx, mono, wait>>

\* The delay of one poll, vTaskDelay(pdMS_TO_TICKS(100)), in milliseconds.
POLL_DELAY_MS == 100

\* The weact_epaper_wait_until_idle calls an operation makes.
waits_of(op) == IF op = "init" THEN 2 ELSE 1

\* Mutant: the timeout counter wraps around below the bound.
wait_advance_wrapping(timeout) == (timeout + 10) % MAX_TIMEOUT_MS

\* timeout += 10, once per poll that reads busy.
wait_advance(timeout) == timeout + 10

\* weact_epaper_wait_until_idle is entered: timeout = 0. slept counts the
\* milliseconds this call has spent in vTaskDelay.
wait_enter ==
    /\ phase = "wait"
    /\ wait.pc = "call"
    /\ wait' = [wait EXCEPT !.pc = "poll", !.timeout = 0, !.slept = 0]
    /\ UNCHANGED <<framebuffer, trace, last, hist, phase, g_ctx, mono, coord>>

\* One evaluation of the loop condition, and the loop body when BUSY reads 1:
\* vTaskDelay(pdMS_TO_TICKS(100)); timeout += 10; and the test of the bound.
\* The clock of the delays is followed up to MaxSlept.
wait_poll ==
    /\ phase = "wait"
    /\ wait.pc = "poll"
    /\ wait.slept < MaxSlept
    /\ \E level \in {0, 1} :
         IF level = 1
         THEN LET timeout == wait_advance(wait.timeout)
              IN wait' = [wait EXCEPT !.slept = @ + POLL_DELAY_MS,
                                      !.timeout = timeout, !.level = 1,
                                      !.pc = IF timeout > MAX_TIMEOUT_MS
                                             THEN "done" ELSE "poll"]
         ELSE wait' = [wait EXCEPT !.level = 0, !.pc = "done"]
    /\ UNCHANGED <<framebuffer, trace, last, hist, phase, g_ctx, mono, coord>>

\* weact_epaper_wait_until_idle returns; its caller goes on to its next
\* wait or returns itself.
wait_return ==
    /\ phase = "wait"
    /\ wait.pc = "done"
    /\ wait' = [wait EXCEPT !.waits = @ - 1,
                            !.pc = IF wait.waits = 1 THEN "returned" ELSE "call"]
    /\ UNCHANGED <<framebuffer, trace, last, hist, phase, g_ctx, mono, coord>>

\* rgb_to_mono(color), applied to the color the harness holds.
rgb_to_mono_call ==
    /\ phase = "mono"
    /\ mono.ret = <<>>
    /\ mono' = [mono EXCEPT !.ret = <<rgb_to_mono(mono.color)>>]
    /\ UNCHANGED <<framebuffer, trace, last, hist, phase, g_ctx, coord, wait>>

(***************************************************************************)
(* Specifications                                                          *)
(***************************************************************************)
\* Before weact_epaper_init / lvgl_weact_epaper_create: g_ctx is zeroed
\* static storage.
Init ==
    /\ framebuffer = NULL
    /\ trace = <<>>
    /\ last = [op |-> "none"]
    /\ hist = <<>>
    /\ phase = "start"
    /\ g_ctx = [landscape |-> FALSE, disp |-> NULL, draw_buf1 |-> NULL, draw_buf2 |-> NULL]
    /\ mono = [color |-> [red |-> 0, green |-> 0, blue |-> 0], ret |-> <<>>]
    /\ coord = NoCoord
    /\ wait = NoWait

Next ==
    \/ weact_epaper_init
    \/ weact_epaper_draw_pixel
    \/ weact_epaper_draw_rectangle
    \/ weact_epaper_clear_screen
    \/ weact_epaper_display_frame
    \/ lvgl_weact_epaper_create
    \/ lvgl_flush_cb

Spec == Init /\ [][Next]_vars

\* The life of the panel under the core driver: init, drawing, refreshes,
\* waits and sleep, in any order the application may call them.
NextSleep ==
    \/ weact_epaper_init
    \/ weact_epaper_draw_pixel
    \/ weact_epaper_draw_rectangle
    \/ weact_epaper_clear_screen
    \/ weact_epaper_display_frame
    \/ weact_epaper_wait_until_idle
    \/ weact_epaper_sleep

SpecSleep == Init /\ [][NextSleep]_vars

\* The core driver on a transport that may fail: each operation either
\* runs to its end or has one of its transmits fail, and the application
\* may call the transport routines itself.
NextTransport ==
    \/ weact_epaper_init
    \/ weact_epaper_init_abort
    \/ weact_epaper_clear_screen
    \/ weact_epaper_clear_screen_abort
    \/ weact_epaper_display_frame
    \/ weact_epaper_display_frame_abort
    \/ weact_epaper_sleep
    \/ weact_epaper_sleep_abort
    \/ weact_epaper_send_command
    \/ weact_epaper_send_data
    \/ weact_epaper_send_data_byte

SpecTransport == Init /\ [][NextTransport]_vars

\* The harness of the pure function rgb_to_mono: any color of the sample
\* channels, then the call.
InitMono ==
    /\ framebuffer = NULL
    /\ trace = <<>>
    /\ last = [op |-> "none"]
    /\ hist = <<>>
    /\ phase = "mono"
    /\ g_ctx = [landscape |-> FALSE, disp |-> NULL, draw_buf1 |-> NULL, draw_buf2 |-> NULL]
    /\ mono \in {[color |-> [red |-> r, green |-> g, blue |-> b], ret |-> <<>>] :
                    r \in Channels, g \in Channels, b \in Channels}
    /\ coord = NoCoord
    /\ wait = NoWait

NextMono == rgb_to_mono_call

SpecMono == InitMono /\ [][NextMono]_vars

\* The harness of the landscape coordinate transform: any pixel of the
\* logical display, then the transform.
InitCoord ==
    /\ framebuffer = NULL
    /\ trace = <<>>
    /\ last = [op |-> "none"]
    /\ hist = <<>>
    /\ phase = "coord"
    /\ g_ctx = [landscape |-> TRUE, disp |-> NULL, draw_buf1 |-> NULL, draw_buf2 |-> NULL]
    /\ mono = [color |-> [red |-> 0, green |-> 0, blue |-> 0], ret |-> <<>>]
    /\ coord \in {[x |-> x, y |-> y, hw |-> <<>>] :
                     x \in 0..(disp_width(TRUE) - 1), y \in 0..(disp_height(TRUE) - 1)}
    /\ wait = NoWait

NextCoord == flush_hw_coord_call

SpecCoord == InitCoord /\ [][NextCoord]_vars

\* weact_epaper_wait_until_idle step by step, called directly or from within
\* init, clear_screen or display_frame, with BUSY read freely at each poll;
\* the calling task keeps running.
InitWait ==
    /\ framebuffer = NULL
    /\ trace = <<>>
    /\ last = [op |-> "none"]
    /\ hist = <<>>
    /\ phase = "wait"
    /\ g_ctx = [landscape |-> FALSE, disp |-> NULL, draw_buf1 |-> NULL, draw_buf2 |-> NULL]
    /\ mono = [color |-> [red |-> 0, green |-> 0, blue |-> 0], ret |-> <<>>]
    /\ coord = NoCoord
    /\ wait \in {[op |-> op, waits |-> waits_of(op), pc |-> "call", timeout |-> 0, level |-> 0,
                     slept |-> 0] :
                    op \in {"wait_until_idle", "init", "clear_screen", "display_frame"}}

NextWait ==
    \/ wait_enter
    \/ wait_poll
    \/ wait_return

SpecWait == InitWait /\ [][NextWait]_vars /\ WF_vars(NextWait)

(***************************************************************************)
(* The earlier drivers kept in the repository: ssd1675_lowlevel and the    *)
(* swapped ssd1680_lowlevel, whose framebuffer is packed without row       *)
(* padding                                                                 *)
(***************************************************************************)
SSD1675_WIDTH == 250
SSD1675_HEIGHT == 122
SSD1675_BUFFER_SIZE == c_div(SSD1675_WIDTH * SSD1675_HEIGHT, 8)

\* ssd1680_lowlevel.h, which ssd1680_lowlevel_swapped.c includes.
SSD1680_WIDTH == 122
SSD1680_HEIGHT == 250
SSD1680_WIDTH_BYTES == 16
SSD1680_BUFFER_SIZE == SSD1680_WIDTH_BYTES * SSD1680_HEIGHT

\* The bounds check of ssd1675_draw_pixel: TRUE past the early return.
ssd1675_in_bounds(x, y) ==
    ~(x < 0 \/ x >= SSD1675_WIDTH \/ y < 0 \/ y >= SSD1675_HEIGHT)

\* int byte_index = (y * SSD1675_WIDTH + x) / 8;
ssd1675_byte_index(x, y) == c_div(y * SSD1675_WIDTH + x, 8)

\* The bounds check of the swapped ssd1680_draw_pixel: y < 0 is not tested.
ssd1680_in_bounds(x, y) ==
    ~(x < 0 \/ x >= SSD1680_WIDTH \/ y >= SSD1680_HEIGHT)

\* int byte_index = (y * SSD1680_WIDTH + x) / 8;
ssd1680_byte_index(x, y) == c_div(y * SSD1680_WIDTH + x, 8)

\* int bit_index = x % 8; in both drivers.
legacy_bit_index(x) == c_mod(x, 8)

\* framebuffer[byte_index] |= or &= ~ (1 << (7 - bit_index)), by color. A
\* byte_index outside the allocation is undefined behaviour: the store hits
\* memory that is not the framebuffer.
legacy_store(fb, index, bit, color) ==
    IF index \notin DOMAIN fb THEN fb
    ELSE IF color = 0
         THEN [fb EXCEPT ![index] = OrBit(@, 7 - bit)]
         ELSE [fb EXCEPT ![index] = AndNotBit(@, 7 - bit)]

\* Arguments <<x, y, color>> of ssd1675_draw_pixel: the example of the
\* comment, the end of row 0 and the start of row 1, the last pixels of the
\* last row, and pixels off each edge.
Ssd1675PixelArgs ==
    {<<10, 5, 1>>, <<10, 5, 0>>, <<248, 0, 1>>, <<0, 1, 0>>, <<0, 1, 1>>,
     <<245, 121, 1>>, <<249, 121, 1>>, <<250, 0, 1>>, <<0, 122, 1>>,
     <<-1, 0, 1>>, <<0, -1, 1>>}

\* Arguments <<x, y, color>> of the swapped ssd1680_draw_pixel, likewise.
Ssd1680PixelArgs ==
    {<<10, 5, 1>>, <<10, 5, 0>>, <<120, 0, 1>>, <<0, 1, 0>>, <<0, 1, 1>>,
     <<121, 249, 1>>, <<122, 0, 1>>, <<0, 250, 1>>,
     <<-1, 0, 1>>, <<0, -1, 1>>, <<121, -1, 1>>}

\* One call of a draw_pixel of an earlier driver: last.access holds the
\* byte index it reads and writes; after a store outside the allocation
\* nothing more is known of the program.
legacy_draw_pixel(name, a, in_bounds, index) ==
    LET call == [op |-> name, x |-> a[1], y |-> a[2], color |-> a[3],
                 access |-> IF in_bounds THEN {index} ELSE {}]
    IN /\ Len(hist) < MaxDraws
       /\ framebuffer' = IF in_bounds
                         THEN legacy_store(framebuffer, index, legacy_bit_index(a[1]), a[3])
                         ELSE framebuffer
       /\ last' = call
       /\ hist' = Append(hist, call)
       /\ phase' = IF in_bounds /\ index \notin DOMAIN framebuffer
                   THEN "undefined" ELSE phase
       /\ UNCHANGED <<trace, g_ctx, mono, coord, wait>>

\* ssd1675_draw_pixel(dev, x, y, color)
ssd1675_draw_pixel ==
    /\ phase = "ssd1675"
    /\ \E a \in Ssd1675PixelArgs :
         legacy_draw_pixel("ssd1675_draw_pixel", a, ssd1675_in_bounds(a[1], a[2]),
                           ssd1675_byte_index(a[1], a[2]))

\* ssd1680_draw_pixel(dev, x, y, color) of ssd1680_lowlevel_swapped.c
ssd1680_draw_pixel ==
    /\ phase = "ssd1680_swapped"
    /\ \E a \in Ssd1680PixelArgs :
         legacy_draw_pixel("ssd1680_draw_pixel", a, ssd1680_in_bounds(a[1], a[2]),
                           ssd1680_byte_index(a[1], a[2]))

\* Either earlier driver after its init: the framebuffer allocated with
\* its BUFFER_SIZE and filled with 0xFF.
InitLegacy ==
    /\ \E size \in {SSD1675_BUFFER_SIZE, SSD1680_BUFFER_SIZE} :
          /\ framebuffer = [i \in 0..(size - 1) |-> 255]
          /\ phase = IF size = SSD1675_BUFFER_SIZE THEN "ssd1675" ELSE "ssd1680_swapped"
    /\ trace = <<>>
    /\ last = [op |-> "none"]
    /\ hist = <<>>
    /\ g_ctx = [landscape |-> FALSE, disp |-> NULL, draw_buf1 |-> NULL, draw_buf2 |-> NULL]
    /\ mono = [color |-> [red |-> 0, green |-> 0, blue |-> 0], ret |-> <<>>]
    /\ coord = NoCoord
    /\ wait = NoWait

NextLegacy ==
    \/ ssd1675_draw_pixel
    \/ ssd1680_draw_pixel

SpecLegacy == InitLegacy /\ [][NextLegacy]_vars

\* Rectangles drawn on an initialized device, one after another.
NextRect ==
    \/ weact_epaper_init
    \/ weact_epaper_draw_rectangle_corners

SpecRect == Init /\ [][NextRect]_vars

(***************************************************************************)
(* Properties                                                              *)
(***************************************************************************)
\* The panel [0, width) x [0, height) of the data model.
OnPanel(x, y) == 0 <= x /\ x < 122 /\ 0 <= y /\ y < 250

\* Reading pixel (x, y) back from a buffer, by the addressing of the data
\* model: byte y * 16 + x / 8, bit 7 - (x mod 8); 1 is WHITE, 0 is BLACK.
ReadPixel(buf, x, y) == (buf[y * 16 + (x \div 8)] \div (2 ^ (7 - (x % 8)))) % 2

\* Every byte of the buffer is 0xFF.
AllWhite(buf) == \A i \in 0..3999 : buf[i] = 255

\* C1: after an in-bounds draw_pixel(x, y, BLACK) pixel (x, y) reads 0
\* (BLACK), and after an in-bounds draw_pixel(x, y, WHITE) it reads 1 (WHITE),
\* whatever the framebuffer held before.
C1_DrawPixelRoundTrip ==
    (last.op = "draw_pixel" /\ OnPanel(last.x, last.y)) =>
        /\ last.color = COLOR_BLACK => ReadPixel(framebuffer, last.x, last.y) = BIT_BLACK
        /\ last.color = COLOR_WHITE => ReadPixel(framebuffer, last.x, last.y) = BIT_WHITE

\* C1 witness: WHITE drawn over a pixel that the call before had drawn BLACK.
C1_Witness ==
    /\ last.op = "draw_pixel" /\ OnPanel(last.x, last.y) /\ last.color = COLOR_WHITE
    /\ Len(hist) = 2
    /\ hist[1].op = "draw_pixel" /\ hist[1].x = last.x /\ hist[1].y = last.y
    /\ hist[1].color = COLOR_BLACK
    /\ ReadPixel(framebuffer, last.x, last.y) = BIT_WHITE

\* C2: a draw_pixel outside the panel, in either color, leaves every byte of
\* the framebuffer as it was and makes the transport observe nothing.
C2_OutOfBoundsNoOp ==
    [][(last'.op = "draw_pixel" /\ ~OnPanel(last'.x, last'.y)) =>
          (framebuffer' = framebuffer /\ trace' = <<>>)]_vars

\* C2 witness: a draw_pixel one step right of the panel, on a framebuffer
\* that is not blank.
C2_Witness ==
    /\ last.op = "draw_pixel" /\ last.x = 122 /\ last.y = 0
    /\ Len(hist) = 2 /\ ~AllWhite(framebuffer)

\* C3: an in-bounds draw_pixel(x, y, color) changes at most bit 7 - (x mod 8)
\* of byte y * 16 + x / 8: every other byte, and every other bit of that
\* byte, keeps its value.
C3_DrawPixelFrame ==
    [][(last'.op = "draw_pixel" /\ OnPanel(last'.x, last'.y)) =>
          LET target == last'.y * 16 + (last'.x \div 8)
          IN /\ \A i \in 0..3999 : i # target => framebuffer'[i] = framebuffer[i]
             /\ \A k \in 0..7 :
                  k # 7 - (last'.x % 8) =>
                     (framebuffer'[target] \div (2 ^ k)) % 2
                        = (framebuffer[target] \div (2 ^ k)) % 2]_vars

\* C3 witness: the last pixel of the panel, next to the padding bits, drawn
\* BLACK on a blank framebuffer: bit 6 of byte 3999 changed.
C3_Witness ==
    /\ last.op = "draw_pixel" /\ last.x = 121 /\ last.y = 249
    /\ last.color = COLOR_BLACK /\ Len(hist) = 1
    /\ framebuffer[3999] = 191

\* C4: from clear_screen until the next drawing call every byte of the
\* framebuffer is 0xFF and every pixel reads WHITE.
C4_ClearScreenWhite ==
    (phase = "core" /\ hist = <<>> /\ last.op \in {"clear_screen", "display_frame"}) =>
        /\ AllWhite(framebuffer)
        /\ \A x \in 0..121, y \in 0..249 :
              ReadPixel(framebuffer, x, y) = BIT_WHITE

\* C4 witness: clear_screen has returned.
C4_Witness ==
    last.op = "clear_screen" /\ hist = <<>> /\ AllWhite(framebuffer)

\* The register writes of a trace: each command with the data bytes that
\* follow it, and each other observed call, in order.
RECURSIVE RegWritesFrom(_, _, _)
RegWritesFrom(tr, i, acc) ==
    IF i > Len(tr) THEN acc
    ELSE LET e == tr[i]
         IN IF e.ev # "spi"
            THEN RegWritesFrom(tr, i + 1,
                     Append(acc, [kind |-> e.ev, cmd |-> -1, data |-> <<>>]))
            ELSE IF e.dc = 0
            THEN RegWritesFrom(tr, i + 1,
                     Append(acc, [kind |-> "write", cmd |-> e.tx[0], data |-> <<>>]))
            ELSE LET bytes == [k \in 1..Cardinality(DOMAIN e.tx) |-> e.tx[k - 1]]
                 IN IF acc # <<>> /\ acc[Len(acc)].kind = "write"
                    THEN RegWritesFrom(tr, i + 1,
                             [acc EXCEPT ![Len(acc)].data = @ \o bytes])
                    ELSE RegWritesFrom(tr, i + 1,
                             Append(acc, [kind |-> "data", cmd |-> -1, data |-> bytes]))

RegWrites(tr) == RegWritesFrom(tr, 1, <<>>)

Write(cmd, data) == [kind |-> "write", cmd |-> cmd, data |-> data]

\* A write of the whole buffer to RAM plane cmd: 4000 bytes.
FullBufferWrite(w, cmd) == w.kind = "write" /\ w.cmd = cmd /\ Len(w.data) = 4000

\* The positions of the trace where command byte cmd is transmitted.
CommandAt(tr, cmd) ==
    {i \in 1..Len(tr) : tr[i].ev = "spi" /\ tr[i].dc = 0 /\ tr[i].tx[0] = cmd}

\* The buffer transmitted right after the primary-plane write command 0x24.
PrimaryPayload(tr) == tr[(CHOOSE i \in CommandAt(tr, 36) : TRUE) + 1].tx

\* C5: one clear_screen transmits: X counter reset (0x4E, 00), Y counter
\* reset (0x4F, 00 00), 0x24 with 4000 bytes, the two resets again, 0x26 with
\* 4000 bytes, 0x22 with 0xF7, 0x20, and then waits until idle; these are
\* its only two full-buffer writes and its only activation.
C5_ClearScreenTrace ==
    last.op = "clear_screen" =>
        LET w == RegWrites(trace)
        IN /\ Len(w) = 9
           /\ w[1] = Write(78, <<0>>)
           /\ w[2] = Write(79, <<0, 0>>)
           /\ FullBufferWrite(w[3], 36)
           /\ w[4] = Write(78, <<0>>)
           /\ w[5] = Write(79, <<0, 0>>)
           /\ FullBufferWrite(w[6], 38)
           /\ w[7] = Write(34, <<247>>)
           /\ w[8] = Write(32, <<>>)
           /\ w[9].kind = "wait_until_idle"
           /\ Cardinality({i \in 1..Len(w) : Len(w[i].data) = 4000}) = 2
           /\ Cardinality(CommandAt(trace, 32)) = 1

\* C5 witness: clear_screen has returned and the transport has observed it.
C5_Witness ==
    last.op = "clear_screen" /\ Cardinality(CommandAt(trace, 38)) = 1

\* C6: one display_frame transmits, in order: the X/Y counter resets to
\* (0, 0), 0x24 with 4000 bytes, 0x22 with 0xF7, 0x20, and then waits until
\* idle; it never transmits 0x26.
C6_DisplayFrameTrace ==
    last.op = "display_frame" =>
        LET w == RegWrites(trace)
        IN /\ Len(w) = 6
           /\ w[1] = Write(78, <<0>>)
           /\ w[2] = Write(79, <<0, 0>>)
           /\ FullBufferWrite(w[3], 36)
           /\ w[4] = Write(34, <<247>>)
           /\ w[5] = Write(32, <<>>)
           /\ w[6].kind = "wait_until_idle"
           /\ CommandAt(trace, 38) = {}

\* C6 witness: display_frame has returned, after some drawing.
C6_Witness ==
    last.op = "display_frame" /\ hist # <<>> /\ Cardinality(CommandAt(trace, 36)) = 1

\* C7: display_frame leaves every byte of the framebuffer as it was, and the
\* buffer it transmits after 0x24 is the framebuffer of the time of the call.
C7_DisplayFrameReadsOnly ==
    [][last'.op = "display_frame" =>
          /\ framebuffer' = framebuffer
          /\ CommandAt(trace', 36) # {}
          /\ PrimaryPayload(trace') = framebuffer]_vars

\* C7 witness: display_frame has uploaded a framebuffer that is not blank.
C7_Witness ==
    /\ last.op = "display_frame" /\ ~AllWhite(framebuffer)
    /\ PrimaryPayload(trace) = framebuffer

\* The box of a rectangle call, corners sorted.
BoxOf(call) ==
    [xmin |-> IF call.x0 < call.x1 THEN call.x0 ELSE call.x1,
     xmax |-> IF call.x0 < call.x1 THEN call.x1 ELSE call.x0,
     ymin |-> IF call.y0 < call.y1 THEN call.y0 ELSE call.y1,
     ymax |-> IF call.y0 < call.y1 THEN call.y1 ELSE call.y0]

\* C8: a filled rectangle drawn on the blank framebuffer and then
\* display_frame: in the payload sent after 0x24 the bits of the pixels of the
\* panel inside the box are 0 (BLACK) and every other bit of every row, the
\* six padding bits included, is 1 (WHITE).
C8_FilledRectanglePayload ==
    (/\ last.op = "display_frame" /\ Len(hist) = 1
     /\ hist[1].op = "draw_rectangle" /\ hist[1].filled) =>
        LET box == BoxOf(hist[1])
            payload == PrimaryPayload(trace)
        IN \A y \in 0..249, c \in 0..127 :
              ReadPixel(payload, c, y) =
                 IF /\ c < 122
                    /\ box.xmin <= c /\ c <= box.xmax
                    /\ box.ymin <= y /\ y <= box.ymax
                 THEN BIT_BLACK ELSE BIT_WHITE

\* C8 witness: the scenario's rectangle (10,10)-(49,49), then display_frame.
C8_Witness ==
    /\ last.op = "display_frame" /\ Len(hist) = 1
    /\ hist[1] = [op |-> "draw_rectangle", x0 |-> 10, y0 |-> 10, x1 |-> 49, y1 |-> 49,
                  filled |-> TRUE]
    /\ ReadPixel(PrimaryPayload(trace), 10, 10) = BIT_BLACK
    /\ ReadPixel(PrimaryPayload(trace), 49, 49) = BIT_BLACK
    /\ ReadPixel(PrimaryPayload(trace), 50, 49) = BIT_WHITE

\* The luma of the threshold rule: (R*30 + G*59 + B*11) / 100, rounded down.
Luma(color) == (color.red * 30 + color.green * 59 + color.blue * 11) \div 100

\* The hardware pixel of source pixel (x, y) of a dirty rectangle, by the
\* orientation transform: identity, or (y, 249 - x) in landscape.
HwPixel(landscape, area, x, y) ==
    IF landscape THEN <<area.y1 + y, 249 - (area.x1 + x)>>
    ELSE <<area.x1 + x, area.y1 + y>>

\* C9: after a flush every source pixel with luma < 128 is BLACK (bit 0) in
\* the framebuffer at its hardware pixel, and every source pixel with
\* luma >= 128 is WHITE (bit 1).
C9_FlushPolarity ==
    last.op = "flush" =>
        LET w == last.area.x2 - last.area.x1 + 1
            h == last.area.y2 - last.area.y1 + 1
        IN \A x \in 0..(w - 1), y \in 0..(h - 1) :
              LET hw == HwPixel(g_ctx.landscape, last.area, x, y)
                  luma == Luma(flush_read_color(last.cf, last.px_map, y * w + x))
              IN OnPanel(hw[1], hw[2]) =>
                    ReadPixel(framebuffer, hw[1], hw[2])
                       = IF luma < 128 THEN BIT_BLACK ELSE BIT_WHITE

\* C9, as built: the flush hands rgb_to_mono's value (0 for luma < 128) to
\* draw_pixel unchanged, where 0 is WHITE: a source pixel with luma < 128
\* ends as bit 1 at its hardware pixel and one with luma >= 128 as bit 0.
C9_FlushAsBuilt ==
    last.op = "flush" =>
        LET w == last.area.x2 - last.area.x1 + 1
            h == last.area.y2 - last.area.y1 + 1
        IN \A x \in 0..(w - 1), y \in 0..(h - 1) :
              LET hw == HwPixel(g_ctx.landscape, last.area, x, y)
                  luma == Luma(flush_read_color(last.cf, last.px_map, y * w + x))
              IN OnPanel(hw[1], hw[2]) =>
                    ReadPixel(framebuffer, hw[1], hw[2])
                       = IF luma < 128 THEN BIT_WHITE ELSE BIT_BLACK

\* C9, as built, witness: a dark source pixel flushed onto the blank
\* framebuffer leaves it blank.
C9_AsBuiltWitness ==
    /\ last.op = "flush" /\ last.cf = "RGB888"
    /\ last.area = [x1 |-> 0, y1 |-> 0, x2 |-> 0, y2 |-> 0]
    /\ Luma(flush_read_color(last.cf, last.px_map, 0)) < 128
    /\ AllWhite(framebuffer)

\* C10: rgb_to_mono returns its black (0) exactly when
\* (R*30 + G*59 + B*11) / 100, rounded down, is below 128, and its white (1)
\* otherwise: luma 127 is black and luma 128 is white.
C10_MonoThreshold ==
    mono.ret # <<>> =>
        /\ mono.ret[1] \in {0, 1}
        /\ mono.ret[1] = 0 <=> Luma(mono.color) < 128
        /\ Luma(mono.color) = 127 => mono.ret[1] = 0
        /\ Luma(mono.color) = 128 => mono.ret[1] = 1

\* C10 witness: a color of luma exactly 128, not a gray, classified white.
C10_Witness ==
    /\ mono.ret = <<1>> /\ Luma(mono.color) = 128
    /\ mono.color.red # mono.color.green

\* The positions of the trace where event ev is observed.
EventAt(tr, ev) == {i \in 1..Len(tr) : tr[i].ev = ev}

\* C11: in the trace of every flush, lv_display_flush_ready is observed
\* exactly once, after the draw_pixel calls of all w*h pixels of the dirty
\* rectangle and before every transport write; the refresh that follows
\* uploads the framebuffer holding those pixels.
C11_FlushReadyOnce ==
    last.op = "flush" =>
        LET w == last.area.x2 - last.area.x1 + 1
            h == last.area.y2 - last.area.y1 + 1
            ready == EventAt(trace, "lv_display_flush_ready")
        IN /\ Cardinality(ready) = 1
           /\ Cardinality(EventAt(trace, "draw_pixel")) = w * h
           /\ \A i \in EventAt(trace, "draw_pixel"), r \in ready : i < r
           /\ \A i \in EventAt(trace, "spi"), r \in ready : r < i
           /\ \A i \in EventAt(trace, "wait_until_idle"), r \in ready : r < i
           /\ EventAt(trace, "spi") # {}
           /\ PrimaryPayload(trace) = framebuffer

\* C11 witness: a flush of a 2x2 rectangle: four pixels drawn, then the
\* notification as the fifth event, then the refresh.
C11_Witness ==
    /\ last.op = "flush"
    /\ last.area.x2 - last.area.x1 = 1
    /\ Len(trace) > 5
    /\ trace[5].ev = "lv_display_flush_ready"
    /\ trace[6].ev = "spi"

\* The bit draw_pixel leaves for color value v: 1 for 0, else 0.
BitForColor(v) == IF v = 0 THEN 1 ELSE 0

\* Buffer f with the bytes at the indices of S taken from buffer g.
RECURSIVE WithBytesOf(_, _, _)
WithBytesOf(f, g, S) ==
    IF S = {} THEN f
    ELSE LET b == CHOOSE b \in S : TRUE
         IN WithBytesOf([f EXCEPT ![b] = g[b]], g, S \ {b})

\* C12: a flush of a rectangle inside the logical display calls draw_pixel
\* once per (x, y) of the rectangle, in row-major order, with the
\* thresholded value (0 for luma < 128, else 1) of source element y*w + x
\* and the hardware pixel of the orientation mapping; every such pixel is on
\* the panel and holds the value written; every other bit of the framebuffer
\* is unchanged.
C12_FlushCopiesRectangle ==
    [][last'.op = "flush" =>
         LET area == last'.area
             w == area.x2 - area.x1 + 1
             h == area.y2 - area.y1 + 1
             Hw(x, y) == HwPixel(g_ctx.landscape, area, x, y)
             Value(x, y) ==
                 IF Luma(flush_read_color(last'.cf, last'.px_map, y * w + x)) < 128
                 THEN 0 ELSE 1
             image == {Hw(x, y) : x \in 0..(w - 1), y \in 0..(h - 1)}
         IN /\ Cardinality(EventAt(trace', "draw_pixel")) = w * h
            /\ \A x \in 0..(w - 1), y \in 0..(h - 1) :
                  /\ trace'[y * w + x + 1] =
                        [ev |-> "draw_pixel", x |-> Hw(x, y)[1], y |-> Hw(x, y)[2],
                         color |-> Value(x, y)]
                  /\ OnPanel(Hw(x, y)[1], Hw(x, y)[2])
                  /\ ReadPixel(framebuffer', Hw(x, y)[1], Hw(x, y)[2])
                        = BitForColor(Value(x, y))
            /\ Cardinality(image) = w * h
            /\ LET bytes == {p[2] * 16 + p[1] \div 8 : p \in image}
               IN /\ WithBytesOf(framebuffer', framebuffer, bytes) = framebuffer
                  /\ \A i \in bytes, k \in 0..7 :
                        \/ BitOf(framebuffer'[i], k) = BitOf(framebuffer[i], k)
                        \/ <<(i % 16) * 8 + (7 - k), i \div 16>> \in image]_vars

\* C12 witness: a landscape flush of the 2x2 rectangle (248,120)-(249,121)
\* with one light source pixel, element 1, has changed hardware pixel
\* (120, 0) and no other.
C12_Witness ==
    /\ last.op = "flush" /\ g_ctx.landscape
    /\ last.area = [x1 |-> 248, y1 |-> 120, x2 |-> 249, y2 |-> 121]
    /\ last.cf = "RGB888"
    /\ Luma(flush_read_color(last.cf, last.px_map, 1)) >= 128
    /\ Luma(flush_read_color(last.cf, last.px_map, 0)) < 128
    /\ ReadPixel(framebuffer, 120, 0) = BitForColor(1)
    /\ ReadPixel(framebuffer, 120, 1) = BitForColor(0)

\* The inverse of the landscape mapping: hardware (hx, hy) to logical
\* (249 - hy, hx).
LandscapeInverse(hw) == <<249 - hw[2], hw[1]>>

\* C13: the landscape mapping takes every logical pixel of [0,250) x [0,122)
\* to a hardware pixel of [0,122) x [0,250) from which the inverse mapping
\* recovers it (so no two logical pixels share a hardware pixel), and every
\* hardware pixel is the image of its inverse, a logical pixel (so every
\* hardware pixel is hit): here the hardware pixel (y, x), which ranges over
\* the whole hardware grid as (x, y) ranges over the logical grid.
C13_LandscapeBijection ==
    (phase = "coord" /\ coord.hw # <<>>) =>
        /\ coord.hw[1] \in 0..121 /\ coord.hw[2] \in 0..249
        /\ coord.hw = <<coord.y, 249 - coord.x>>
        /\ LandscapeInverse(coord.hw) = <<coord.x, coord.y>>
        /\ LET q == <<coord.y, coord.x>>
               p == LandscapeInverse(q)
               hw == flush_hw_coord(TRUE, full_landscape_area, p[1], p[2])
           IN /\ p[1] \in 0..249 /\ p[2] \in 0..121
              /\ <<hw.hw_x, hw.hw_y>> = q

\* C13 witness: the last logical pixel (249, 121) is taken to hardware
\* pixel (121, 0).
C13_Witness ==
    phase = "coord" /\ coord.x = 249 /\ coord.y = 121 /\ coord.hw = <<121, 0>>

\* C14: weact_epaper_wait_until_idle, and with it init, clear_screen and
\* display_frame, always returns, whatever BUSY reads; a wait ends only on
\* a poll that read not-busy or once the timeout counter exceeds the bound,
\* which takes at most 501 polls.
C14_WaitTerminates ==
    /\ <>(wait.pc = "returned")
    /\ [](wait.pc = "done" => (wait.level = 0 \/ wait.timeout > MAX_TIMEOUT_MS))
    /\ [](wait.timeout <= MAX_TIMEOUT_MS + 10)

\* C14 witness: init has returned although BUSY read high at every poll of
\* its second wait, which timed out.
C14_Witness ==
    /\ wait.op = "init" /\ wait.pc = "returned"
    /\ wait.level = 1 /\ wait.timeout > MAX_TIMEOUT_MS

\* The register writes of a trace alone, in order.
WritesOnly(tr) == SelectSeq(RegWrites(tr), LAMBDA w : w.kind = "write")

\* C15: a successful init pulses the reset pin (high, low, high) before
\* any transmission and then transmits exactly: 0x12, followed by a wait
\* until idle; 0x01 [F9 00 00]; 0x11 [03]; 0x44 [00 0F]; 0x45 [00 00 F9 00];
\* 0x3C [05]; 0x21 [00 80]; 0x18 [80]; no look-up table (0x32) is uploaded.
C15_InitBringUpTrace ==
    (last.op = "init" /\ last.ret) =>
        LET w == RegWrites(trace)
        IN /\ Len(trace) > 3
           /\ SubSeq(trace, 1, 3) = <<[ev |-> "rst", level |-> 1],
                                      [ev |-> "rst", level |-> 0],
                                      [ev |-> "rst", level |-> 1]>>
           /\ \A i \in EventAt(trace, "rst"), j \in EventAt(trace, "spi") : i < j
           /\ WritesOnly(trace) =
                 <<Write(18, <<>>), Write(1, <<249, 0, 0>>), Write(17, <<3>>),
                   Write(68, <<0, 15>>), Write(69, <<0, 0, 249, 0>>),
                   Write(60, <<5>>), Write(33, <<0, 128>>), Write(24, <<128>>)>>
           /\ \E i \in 1..(Len(w) - 1) :
                 w[i] = Write(18, <<>>) /\ w[i + 1].kind = "wait_until_idle"
           /\ CommandAt(trace, 50) = {}

\* C15 witness: init has returned true and the last byte transmitted is
\* the 0x80 of the temperature sensor control.
C15_Witness ==
    /\ last.op = "init" /\ last.ret /\ phase = "core"
    /\ trace[Len(trace)] = [ev |-> "spi", dc |-> 1, tx |-> Buf1(128)]

\* C16: an init whose framebuffer allocation failed has returned false with
\* no reset pulse and no transmission observed and no framebuffer; an init
\* that returned true has left a framebuffer of 4000 bytes 0xFF.
C16_InitAllocation ==
    last.op = "init" =>
        IF last.ret
        THEN AllWhite(framebuffer)
        ELSE /\ framebuffer = NULL
             /\ EventAt(trace, "rst") = {}
             /\ EventAt(trace, "spi") = {}
             /\ trace = <<>>

\* C16 witness: init has returned false.
C16_Witness ==
    last.op = "init" /\ ~last.ret /\ framebuffer = NULL /\ phase = "failed"

Device(ph) ==
    IF ph = "core" THEN "READY" ELSE IF ph = "asleep" THEN "ASLEEP" ELSE "UNINIT"

\* The register writes of the bring-up sequence.
BringUp ==
    <<Write(18, <<>>), Write(1, <<249, 0, 0>>), Write(17, <<3>>),
      Write(68, <<0, 15>>), Write(69, <<0, 0, 249, 0>>),
      Write(60, <<5>>), Write(33, <<0, 128>>), Write(24, <<128>>)>>

\* The state of the panel after it has observed trace tr in state dev: a
\* reset pulse followed by the bring-up writes makes it READY from any
\* state; 0x10 [01] puts a READY panel ASLEEP; an ASLEEP panel ignores
\* everything but the reset pulse.
DeviceAfter(dev, tr) ==
    IF EventAt(tr, "rst") # {}
    THEN IF WritesOnly(tr) = BringUp THEN "READY" ELSE "UNINIT"
    ELSE IF dev = "READY" /\ \E i \in CommandAt(tr, 16) :
                                 /\ i < Len(tr)
                                 /\ tr[i + 1] = [ev |-> "spi", dc |-> 1, tx |-> Buf1(1)]
    THEN "ASLEEP"
    ELSE dev

\* C20: sleep transmits 0x10 with payload 01 and nothing else, and leaves
\* the panel ASLEEP; from then on every call of the driver (draw_pixel,
\* draw_rectangle, clear_screen, display_frame, wait_until_idle, sleep) leaves it ASLEEP:
\* none pulses the reset pin; the panel state always is what the observed
\* transport makes it, and only a reset pulse with the bring-up makes READY.
C20_SleepIsTerminal ==
    [][/\ last'.op = "sleep" =>
             /\ RegWrites(trace') = <<Write(16, <<1>>)>>
             /\ phase' = "asleep"
       /\ phase = "asleep" =>
             /\ phase' = "asleep"
             /\ EventAt(trace', "rst") = {}
             /\ CommandAt(trace', 18) = {}
       /\ Device(phase') = DeviceAfter(Device(phase), trace')]_vars

\* C20 witness: after sleep a pixel was drawn and display_frame called, and
\* the panel is still asleep.
C20_Witness ==
    /\ phase = "asleep" /\ last.op = "display_frame"
    /\ hist # <<>> /\ ~AllWhite(framebuffer)
    /\ CommandAt(trace, 36) # {}

\* C18: every SPI transaction of every operation of the core driver is
\* either one command byte sent with DC low or a payload of at least one
\* byte sent with DC high; send_command(c) is the single transaction
\* (DC 0, c), send_data(d, n) the single transaction (DC 1, d[0..n-1]) and
\* nothing at all for n = 0; in init, clear_screen, display_frame and sleep
\* the DC-low bytes are command codes and each payload follows its command.
C18_DataCommandPin ==
    /\ \A i \in 1..Len(trace) :
          trace[i].ev = "spi" =>
             /\ trace[i].dc \in {0, 1}
             /\ trace[i].dc = 0 => BufLen(trace[i].tx) = 1
             /\ trace[i].dc = 1 => BufLen(trace[i].tx) >= 1
             /\ DOMAIN trace[i].tx = 0..(BufLen(trace[i].tx) - 1)
    /\ last.op = "send_command" =>
          trace = <<[ev |-> "spi", dc |-> 0, tx |-> Buf1(last.cmd)]>>
    /\ last.op = "send_data_byte" =>
          trace = <<[ev |-> "spi", dc |-> 1, tx |-> Buf1(last.data)]>>
    /\ last.op = "send_data" =>
          trace = IF last.len = 0 THEN <<>>
                  ELSE <<[ev |-> "spi", dc |-> 1,
                          tx |-> [i \in 0..(last.len - 1) |-> last.data[i]]]>>
    /\ last.op \in {"init", "clear_screen", "display_frame", "sleep", "abort"} =>
          \A i \in 1..Len(trace) :
             trace[i].ev = "spi" =>
                /\ trace[i].dc = 0 => trace[i].tx[0] \in CommandCodes
                /\ trace[i].dc = 1 => i > 1 /\ trace[i - 1].ev = "spi"

\* C18 witness: send_data was called with a buffer of two bytes and
\* len = 0, and nothing was transmitted.
C18_Witness ==
    /\ last.op = "send_data" /\ last.len = 0
    /\ BufLen(last.data) = 2 /\ trace = <<>>

\* The calls an operation makes when no transmit fails.
OperationTrace(name, fb) ==
    CASE name = "init" -> init_sequence
      [] name = "clear_screen" -> clear_screen_sequence(fb)
      [] name = "display_frame" -> display_frame_sequence(fb)
      [] name = "sleep" -> sleep_sequence

\* C19: when a transmit of init, clear_screen, display_frame or sleep
\* fails, what the transport has observed of the operation ends with the
\* failing transmit: none of the operation's later commands or data
\* follows; and the process takes no further step: the operation does not
\* return and no later call is made.
C19_TransmitFailureAborts ==
    [][/\ phase # "aborted"
       /\ phase' = "aborted" =>
             LET full == OperationTrace(last'.of, framebuffer')
             IN /\ last'.at \in 1..Len(full)
                /\ full[last'.at].ev = "spi"
                /\ trace' = SubSeq(full, 1, last'.at)
                /\ trace'[Len(trace')].ev = "spi"]_vars

\* C19 witness: clear_screen aborted at the upload of the primary plane:
\* 0x26 was never transmitted.
C19_Witness ==
    /\ phase = "aborted" /\ last.of = "clear_screen"
    /\ trace[Len(trace)].ev = "spi" /\ BufLen(trace[Len(trace)].tx) = 4000
    /\ CommandAt(trace, 36) # {} /\ CommandAt(trace, 38) = {}


\* C21: a draw_rectangle call, whichever way round its corners are given
\* and in either fill mode, leaves the framebuffer that the call with the
\* corners in sorted order leaves from the same starting framebuffer.
C21_ReversedCornersSameResult ==
    [][(last'.op = "draw_rectangle" /\ hist' = Append(hist, last')) =>
          LET box == BoxOf(last')
          IN framebuffer' = draw_rectangle(framebuffer, box.xmin, box.ymin,
                                           box.xmax, box.ymax, last'.filled)]_vars

\* C21 witness: a filled and then an outline rectangle, both with both
\* corners reversed, have been drawn and have blackened their corner pixels.
C21_Witness ==
    /\ Len(hist) = 2
    /\ hist[1].filled /\ ~hist[2].filled
    /\ \A i \in 1..2 : hist[i].x0 > hist[i].x1 /\ hist[i].y0 > hist[i].y1
    /\ hist[1].x1 = 118 /\ hist[2].x1 = 118 /\ hist[1].y1 = 3 /\ hist[2].y1 = 3
    /\ ReadPixel(framebuffer, 118, 3) = BIT_BLACK
    /\ ReadPixel(framebuffer, 121, 6) = BIT_BLACK
    /\ ReadPixel(framebuffer, 117, 3) = BIT_WHITE


\* Pixel (x, y) lies on the border of the box.
OnPerimeter(box, x, y) ==
    /\ box.xmin <= x /\ x <= box.xmax /\ box.ymin <= y /\ y <= box.ymax
    /\ (x = box.xmin \/ x = box.xmax \/ y = box.ymin \/ y = box.ymax)

\* The framebuffer bytes of the panel rows the box covers.
BoxRowBytes(box) ==
    {y * 16 + k : y \in {r \in box.ymin..box.ymax : 0 <= r /\ r < 250}, k \in 0..15}

\* C22: an outline draw_rectangle call makes the pixels of the panel on
\* the border of the sorted box BLACK and leaves every other bit of the
\* framebuffer, inside and outside the box, as it was; and no draw_rectangle
\* call, filled or outline, turns a BLACK bit WHITE.
C22_OutlinePerimeterOnly ==
    [][(last'.op = "draw_rectangle" /\ hist' = Append(hist, last')) =>
          LET box == BoxOf(last')
              rows == {r \in box.ymin..box.ymax : 0 <= r /\ r < 250}
          IN /\ WithBytesOf(framebuffer', framebuffer, BoxRowBytes(box)) = framebuffer
             /\ \A y \in rows, c \in 0..127 :
                   /\ ReadPixel(framebuffer', c, y) <= ReadPixel(framebuffer, c, y)
                   /\ ~last'.filled =>
                         ReadPixel(framebuffer', c, y) =
                            IF c < 122 /\ OnPerimeter(box, c, y)
                            THEN BIT_BLACK ELSE ReadPixel(framebuffer, c, y)]_vars

\* C22 witness: an outline has been drawn on the blank framebuffer with its
\* right edge on the panel: border pixels are BLACK, the interior is WHITE.
C22_Witness ==
    /\ Len(hist) = 1 /\ ~last.filled
    /\ BoxOf(last) = [xmin |-> 116, xmax |-> 120, ymin |-> 3, ymax |-> 6]
    /\ ReadPixel(framebuffer, 120, 5) = BIT_BLACK
    /\ ReadPixel(framebuffer, 116, 4) = BIT_BLACK
    /\ ReadPixel(framebuffer, 118, 3) = BIT_BLACK
    /\ ReadPixel(framebuffer, 118, 4) = BIT_WHITE
    /\ ReadPixel(framebuffer, 121, 4) = BIT_WHITE


\* C23: while busy-sense stays high, each poll of wait_until_idle advances
\* the timeout counter by the milliseconds the poll has delayed, and the
\* call has slept at most about MAX_TIMEOUT_MS = 5000 ms (one poll more at
\* most) when it gives up.
C23_TimeoutAfterFiveSeconds ==
    /\ wait.timeout = wait.slept
    /\ wait.slept <= MAX_TIMEOUT_MS + POLL_DELAY_MS


\* The wait as built: each poll delays 100 ms and counts 10, so the call
\* gives up after 501 polls, having slept 50100 ms.
C23_AsBuilt ==
    /\ wait.slept = 10 * wait.timeout
    /\ wait.slept <= 10 * (MAX_TIMEOUT_MS + 10)

\* A wait has given up after 50100 ms of delay.
C23_AsBuiltWitness ==
    /\ wait.pc = "done" /\ wait.level = 1
    /\ wait.timeout = MAX_TIMEOUT_MS + 10 /\ wait.slept = 50100


\* The position of the one occurrence in tr of command cmd, 0 without exactly one.
OnlyCommand(tr, cmd) ==
    IF Cardinality(CommandAt(tr, cmd)) = 1 THEN CHOOSE i \in CommandAt(tr, cmd) : TRUE ELSE 0

\* The position of the one occurrence in tr of event ev, 0 without exactly one.
OnlyEvent(tr, ev) ==
    IF Cardinality(EventAt(tr, ev)) = 1 THEN CHOOSE i \in EventAt(tr, ev) : TRUE ELSE 0

\* C24: lvgl_flush_cb runs only on a display that lvgl_weact_epaper_create
\* has returned (the adapter is entered by create alone and left by
\* nothing), and such a create has, in this order, brought the panel up
\* (reset pulse, 0x12, ..., 0x18), cleared it (4000 bytes of 0xFF after
\* 0x24 and after 0x26, 0x20, wait until idle), allocated the draw buffers,
\* handed them to the library and registered the flush callback; a create
\* whose init fails returns NULL having transmitted nothing (no
\* clear_screen) and registered nothing.
C24_CreateOrder ==
    /\ last.op = "flush" => phase = "lvgl"
    /\ phase = "lvgl" =>
          /\ last.op \in {"create", "flush"}
          /\ g_ctx.disp # NULL /\ g_ctx.draw_buf1 # NULL
    /\ last.op = "create" => (phase = "lvgl" <=> last.ret # NULL)
    /\ (last.op = "create" /\ phase = "lvgl") =>
          LET rst == EventAt(trace, "rst")
              sw == OnlyCommand(trace, 18)
              tmp == OnlyCommand(trace, 24)
              bw == OnlyCommand(trace, 36)
              red == OnlyCommand(trace, 38)
              act == OnlyCommand(trace, 32)
              bufs == OnlyEvent(trace, "lv_display_set_buffers")
              cb == OnlyEvent(trace, "lv_display_set_flush_cb")
          IN /\ last.alloc[1] /\ last.alloc[2] /\ last.alloc[3]
             /\ rst # {} /\ \A i \in rst : i < sw
             /\ 0 < sw /\ sw < tmp /\ tmp < bw /\ bw < red /\ red < act
             /\ act + 1 < bufs /\ bufs < cb
             /\ WritesOnly(SubSeq(trace, 1, tmp + 1)) = BringUp
             /\ AllWhite(trace[bw + 1].tx) /\ AllWhite(trace[red + 1].tx)
             /\ trace[act + 1].ev = "wait_until_idle"
             /\ EventAt(trace, "draw_pixel") = {}
    /\ (last.op = "create" /\ ~last.alloc[1]) =>
          /\ last.ret = NULL /\ phase = "failed"
          /\ trace = <<>>

\* C24 witness: a first flush has run on a display whose create tolerated a
\* failed draw buffer 2.
C24_Witness ==
    /\ last.op = "flush" /\ phase = "lvgl"
    /\ g_ctx.draw_buf1 # NULL /\ g_ctx.draw_buf2 = NULL
    /\ CommandAt(trace, 38) = {} /\ CommandAt(trace, 36) # {}


\* The positions in tr of the commands after which the panel is busy:
\* software reset (0x12) and master activation (0x20).
BusyCommands(tr) == CommandAt(tr, 18) \cup CommandAt(tr, 32)

\* The positions in tr of the transmissions and of the waits.
TransmitOrWait(tr) ==
    {k \in 1..Len(tr) : tr[k].ev \in {"spi", "wait_until_idle"}}

\* C25: in what init, clear_screen, display_frame and sleep make the
\* transport observe, completed or cut short by a failed transmit, the
\* first transmission or wait after every 0x12 and after every 0x20 is a
\* wait until idle: no command or data byte is transmitted between a reset
\* or activation of the driver and the wait that follows it, and every
\* completed operation has waited after its last reset or activation.
C25_WaitAfterResetAndActivation ==
    last.op \in {"init", "clear_screen", "display_frame", "sleep", "abort"} =>
        \A i \in BusyCommands(trace) :
           LET later == {k \in TransmitOrWait(trace) : k > i}
           IN /\ later # {} =>
                    LET k == CHOOSE k \in later : \A m \in later : k <= m
                    IN trace[k].ev = "wait_until_idle"
              /\ later = {} => last.op = "abort" /\ i = Len(trace)

\* C25 witness: a display_frame has uploaded the framebuffer, activated the
\* update and waited.
C25_Witness ==
    /\ last.op = "display_frame"
    /\ CommandAt(trace, 36) # {}
    /\ \E i \in CommandAt(trace, 32) :
          i + 1 = Len(trace) /\ trace[i + 1].ev = "wait_until_idle"


\* The bytes of dev->framebuffer the last call of the core driver has read
\* or written.
AccessOf(call) ==
    CASE call.op = "draw_pixel" -> draw_pixel_access(call.x, call.y)
      [] call.op = "draw_rectangle" ->
            draw_rectangle_access(call.x0, call.y0, call.x1, call.y1, call.filled)
      [] call.op \in {"clear_screen", "display_frame"} -> whole_buffer_access
      [] OTHER -> {}

\* C26: whatever draw_pixel, draw_rectangle, clear_screen and display_frame
\* calls are made, with coordinates on or off the panel, each call reads and
\* writes dev->framebuffer at indices within the allocation 0..3999 only,
\* and every buffer handed to the transport has at most 4000 bytes.
C26_FramebufferAccessInBounds ==
    /\ AccessOf(last) \subseteq 0..3999
    /\ AccessOf(last) # {} => AccessOf(last) \subseteq DOMAIN framebuffer
    /\ \A i \in 1..Len(trace) :
          trace[i].ev = "spi" => DOMAIN trace[i].tx \subseteq 0..3999

\* C26 witness: the last call drew a rectangle that reaches beyond the far
\* corner of the panel and wrote the last byte of the pixels of the last row.
C26_Witness ==
    /\ last.op = "draw_rectangle" /\ last.x1 > 121 /\ last.y1 > 249
    /\ 3999 \in AccessOf(last)
    /\ ReadPixel(framebuffer, 121, 249) = BIT_BLACK


\* C27: on an initialized device, whatever is drawn, cleared, displayed or
\* flushed, bits 5..0 of the last byte of every framebuffer row (byte
\* 16*y + 15) are 1, and so are they in every 4000-byte payload uploaded.
C27_PaddingStaysWhite ==
    /\ phase \in {"core", "asleep", "lvgl"} =>
          \A y \in 0..249 : framebuffer[16 * y + 15] % 64 = 63
    /\ \A i \in 1..Len(trace) :
          (trace[i].ev = "spi" /\ BufLen(trace[i].tx) = 4000) =>
             \A y \in 0..249 : trace[i].tx[16 * y + 15] % 64 = 63

\* C27 witness: pixel (121,249), the last before the padding of the last
\* row, was drawn BLACK and the frame uploaded.
C27_Witness ==
    /\ last.op = "display_frame"
    /\ framebuffer[3999] = 191
    /\ PrimaryPayload(trace)[3999] = 191


\* The content of the controller's secondary (red) RAM plane after the
\* transmissions of tr, red being its content before: a complete upload
\* after the last 0x26 replaces it.
RedPlaneAfter(red, tr) ==
    IF CommandAt(tr, 38) = {} THEN red
    ELSE LET i == CHOOSE i \in CommandAt(tr, 38) : \A k \in CommandAt(tr, 38) : k <= i
         IN IF /\ i < Len(tr) /\ tr[i + 1].ev = "spi" /\ tr[i + 1].dc = 1
               /\ BufLen(tr[i + 1].tx) = 4000
            THEN IF tr[i + 1].tx = [k \in 0..3999 |-> 255] THEN "white" ELSE "image"
            ELSE "partial"

\* C28: every operation of the driver leaves the secondary plane as it was
\* or all white, a clear_screen on the initialized device makes it all white
\* whatever it held, and only clear_screen transmits WRITE_RAM_RED (0x26):
\* so from the first completed clear_screen on, through draws,
\* display_frame, clear_screen and sleep, the secondary plane is all white.
C28_SecondaryPlaneStaysWhite ==
    [][\E red \in {RedPlaneAfter("unknown", trace')} :
          /\ red \in {"unknown", "white"}
          /\ (last'.op = "clear_screen" /\ phase = "core") => red = "white"
          /\ last'.op # "clear_screen" => red = "unknown"]_vars

\* C28 witness: a clear_screen on the initialized device has uploaded 4000
\* bytes of 0xFF after 0x26, the framebuffer having held drawn pixels.
C28_Witness ==
    /\ last.op = "clear_screen" /\ phase = "core"
    /\ RedPlaneAfter("unknown", trace) = "white"
    /\ \E i \in CommandAt(trace, 38) : BufLen(trace[i + 1].tx) = 4000


\* C29: a draw_pixel of the earlier drivers (ssd1675_draw_pixel, the swapped
\* ssd1680_draw_pixel) reads and writes its framebuffer only at byte indices
\* within the allocation, 0 .. BUFFER_SIZE - 1, whatever x and y are.
C29_LegacyAccessInBounds ==
    last.op \in {"ssd1675_draw_pixel", "ssd1680_draw_pixel"} =>
        last.access \subseteq DOMAIN framebuffer

\* The bit at which an earlier driver keeps pixel (x, y), panel width w.
LegacyBit(buf, w, x, y) == BitOf(buf[(y * w + x) \div 8], 7 - (x % 8))

\* C30: in the earlier drivers every pixel of the panel that was drawn, and
\* whose byte lies in the buffer, holds the color last drawn to it: drawing
\* another pixel of the panel has not changed it.
C30_LegacyPixelsIndependent ==
    last.op \in {"ssd1675_draw_pixel", "ssd1680_draw_pixel"} =>
        LET w == IF last.op = "ssd1675_draw_pixel" THEN 250 ELSE 122
            h == IF last.op = "ssd1675_draw_pixel" THEN 122 ELSE 250
        IN \A i \in 1..Len(hist) :
              LET c == hist[i]
              IN (/\ 0 <= c.x /\ c.x < w /\ 0 <= c.y /\ c.y < h
                  /\ (c.y * w + c.x) \div 8 \in DOMAIN framebuffer
                  /\ \A j \in (i + 1)..Len(hist) :
                        /\ 0 <= hist[j].x /\ hist[j].x < w
                        /\ 0 <= hist[j].y /\ hist[j].y < h
                        /\ <<hist[j].x, hist[j].y>> # <<c.x, c.y>>) =>
                    LegacyBit(framebuffer, w, c.x, c.y) = BitForColor(c.color)


\* The last pixel of the last row drawn by ssd1675_draw_pixel: byte index
\* 3812 of a buffer of 3812 bytes.
C29_Ssd1675Overrun ==
    /\ last.op = "ssd1675_draw_pixel" /\ last.x = 249 /\ last.y = 121
    /\ last.access = {SSD1675_BUFFER_SIZE}

\* Pixel (0, -1) drawn by the swapped ssd1680_draw_pixel: byte index -15.
C29_Ssd1680Underrun ==
    /\ last.op = "ssd1680_draw_pixel" /\ last.x = 0 /\ last.y = -1
    /\ last.access = {-15}

\* ssd1675_draw_pixel has drawn (248, 0) BLACK and then (0, 1) WHITE: both
\* are bit 7 of byte 31, which is WHITE again.
C30_Ssd1675Collision ==
    /\ Len(hist) = 2 /\ last.op = "ssd1675_draw_pixel"
    /\ hist[1].x = 248 /\ hist[1].y = 0 /\ hist[1].color = 1
    /\ hist[2].x = 0 /\ hist[2].y = 1 /\ hist[2].color = 0
    /\ hist[1].access = {31} /\ hist[2].access = {31}
    /\ framebuffer[31] = 255

====
